---------------------------- MODULE Spec2Model ----------------------------
(***************************************************************************)
(* A model of the identity, authentication and federation substrate of    *)
(* xrypton: the nonce store, the authenticator, the federation resolver    *)
(* and the keys handler, in the two revisions of the server found in the   *)
(* repository (src/api and the older src/crypton-api).                     *)
(*                                                                         *)
(* Time is counted in milliseconds.  A user id is a record                 *)
(* [local, domain]; a bare id has domain NoDomain.  A signed Authorization *)
(* header is a record of what the server can observe of it: the            *)
(* SignersUserID, the key that made the signature, the envelope's nonce    *)
(* (random, time) and whether the plaintext parses as the JSON envelope.   *)
(*                                                                         *)
(* A request is one step: its handler runs to completion and all its reads *)
(* see one state of the tables.  Only try_use_nonce is taken apart, in     *)
(* SpecNonce, where the interleaving of callers is the question.           *)
(***************************************************************************)
EXTENDS Integers, Sequences, FiniteSets, TLC

VARIABLES
    users,        \* table users: user id -> the row's key material
    registered,   \* ids whose row was created by local registration (history)
    last,         \* what the last request did and answered (observation)
    requests,     \* requests served so far
    procs,        \* SpecDiscover: the authentications in flight, step by step
    fed,          \* SpecFederation: two crypton-api servers and the calls between them
    wot,          \* SpecWot: table wot_signatures and the graph read in progress
    deleted_users, \* table deleted_users: tombstoned user id -> primary fingerprint
    dns,          \* SpecResolver: the cache of the DNS TXT resolver
    chats,        \* SpecChat: the chat tables and what was sent to other servers
    tasks,        \* the background tasks: the nonce sweeper, tasks spawned by handlers
    nonces,       \* table nonces (crypton-api: used_nonces), a set of rows
    now,          \* the server clock, in milliseconds
    ticks,        \* how many times the clock was advanced (bounds the model)
    pending,      \* SpecNonce: per (type, value), calls reached but not yet run
    granted,      \* SpecNonce: per (type, value), calls that returned true
    refused,      \* SpecNonce: per (type, value), calls that returned false
    swept         \* SpecNonce: calls whose row was deleted by the sweeper since

vars == <<users, registered, last, requests, procs, fed, wot, deleted_users, dns, chats, tasks, nonces, now, ticks, pending, granted, refused, swept>>

nonceVars == <<pending, granted, refused, swept>>
serviceVars == <<dns, chats, tasks>>
serverVars == <<users, registered, last, requests, procs, fed, wot, deleted_users, serviceVars>>

----------------------------------------------------------------------------
(* Bounds of the model *)

\* number of try_use_nonce calls made by the concurrent tasks
MaxCalls == 3
\* number of distinct nonce values (random strings) in play
MaxNonceValues == 2
\* how many times the clock may be advanced in one behaviour
MaxTicks == 2
\* number of distinct signing keys in play
MaxKeys == 2
MaxRequests == 3
MaxConcurrent == 2

----------------------------------------------------------------------------
(* Time *)

\* the clock at start-up (one hour after the epoch, so that envelope times
\* before and after it exist)
StartTime == 3600 * 1000

\* the amounts by which the clock advances in one step, in milliseconds:
\* past the auth window by half a second
ClockJumps == {3600 * 1000 + 500}

\* chrono::Duration::num_seconds: whole seconds, truncated toward zero
NumSeconds(ms) ==
    IF ms >= 0 THEN ms \div 1000 ELSE -((-ms) \div 1000)

Abs(x) == IF x < 0 THEN -x ELSE x

\* the observation before any request, and after a step that is no request
NoRequest == [op |-> "none"]

Procs == 1..MaxConcurrent
NoProcs == [p \in Procs |-> [pc |-> "idle"]]
NoFederation == [stack |-> <<>>]
NoCache == <<>>
NoChats == [rows |-> {}]
NoTasks == [sweeper |-> "idle"]
ServicesIdle == dns = NoCache /\ chats = NoChats /\ tasks = NoTasks
NoWot == [signatures |-> {}, pc |-> "idle", run |-> [root |-> ""],
          response |-> [status |-> "none"]]

----------------------------------------------------------------------------
(* Nonce store (src/api/src/db/nonces.rs) *)

NonceTypes == {"auth", "qr"}
NonceValues == 1..MaxNonceValues

NonceRow(t, v, uid, exp) ==
    [nonce_type |-> t, nonce_value |-> v, user_id |-> uid, expires_at |-> exp]

\* a plausible slip: the unique index on nonce_value alone
NonceConflictByValue(rows, t, v) ==
    \E r \in rows : r.nonce_value = v

\* the unique index: ON CONFLICT (nonce_type, nonce_value)
NonceConflict(rows, t, v) ==
    \E r \in rows : r.nonce_type = t /\ r.nonce_value = v

\* a plausible slip: ON CONFLICT (nonce_type, nonce_value) DO UPDATE
TryUseNonceUpsert(rows, t, v, uid, exp) ==
    [rows |-> {r \in rows : ~(r.nonce_type = t /\ r.nonce_value = v)}
                  \cup {NonceRow(t, v, uid, exp)},
     rows_affected |-> 1]

\* INSERT ... ON CONFLICT (nonce_type, nonce_value) DO NOTHING, one statement
TryUseNonce(rows, t, v, uid, exp) ==
    IF NonceConflict(rows, t, v)
    THEN [rows |-> rows, rows_affected |-> 0]
    ELSE [rows |-> rows \cup {NonceRow(t, v, uid, exp)}, rows_affected |-> 1]

\* Ok(result.rows_affected() > 0)
IsNew(res) == res.rows_affected > 0

\* DELETE FROM nonces WHERE expires_at < now
DeleteExpiredNonces(rows, t) == {r \in rows : ~(r.expires_at < t)}

----------------------------------------------------------------------------
(* The clock and the sweeper, shared by the specifications *)

TickTo(d) ==
    /\ ticks < MaxTicks
    /\ now' = now + d
    /\ ticks' = ticks + 1

----------------------------------------------------------------------------
(* SpecNonce: concurrent tasks calling try_use_nonce                       *)
(*                                                                         *)
(* A task first reaches the call (NInvoke: its arguments are fixed) and   *)
(* the database later runs its single INSERT statement (NExecute); calls  *)
(* of different tasks interleave freely between the two.  Tasks are        *)
(* anonymous, so the calls are counted per (type, value): pending, and     *)
(* returned true / returned false since the row was last inserted.         *)

NonceKeys == NonceTypes \X NonceValues

\* the expiry a caller passes: the envelope time (here the time of the call)
\* plus the window of the nonce type
NonceTtl(t) == IF t = "auth" THEN 3600 * 1000 ELSE 300 * 1000

CallsMade ==
    LET RECURSIVE Sum(_)
        Sum(S) == IF S = {} THEN 0
                  ELSE LET k == CHOOSE x \in S : TRUE
                       IN pending[k] + granted[k] + refused[k] + Sum(S \ {k})
    IN Sum(NonceKeys) + swept

NInit ==
    /\ users = <<>>
    /\ registered = {}
    /\ last = NoRequest /\ requests = 0 /\ procs = NoProcs /\ fed = NoFederation
    /\ wot = NoWot /\ deleted_users = <<>> /\ ServicesIdle
    /\ nonces = {}
    /\ now = StartTime
    /\ ticks = 0
    /\ pending = [k \in NonceKeys |-> 0]
    /\ granted = [k \in NonceKeys |-> 0]
    /\ refused = [k \in NonceKeys |-> 0]
    /\ swept = 0

\* a task reaches the call: the statement is not yet run
NInvoke(k) ==
    /\ CallsMade < MaxCalls
    /\ pending' = [pending EXCEPT ![k] = @ + 1]
    /\ UNCHANGED <<nonces, now, ticks, granted, refused, swept, serverVars>>

\* the database runs one pending INSERT
NExecute(k) ==
    /\ pending[k] > 0
    /\ LET res == TryUseNonce(nonces, k[1], k[2], "caller", now + NonceTtl(k[1]))
       IN /\ nonces' = res.rows
          /\ granted' = [granted EXCEPT ![k] = IF IsNew(res) THEN @ + 1 ELSE @]
          /\ refused' = [refused EXCEPT ![k] = IF IsNew(res) THEN @ ELSE @ + 1]
    /\ pending' = [pending EXCEPT ![k] = @ - 1]
    /\ UNCHANGED <<now, ticks, swept, serverVars>>

NTick ==
    /\ \E d \in ClockJumps : TickTo(d)
    /\ UNCHANGED <<nonces, pending, granted, refused, swept, serverVars>>

\* the periodic task of main: delete_expired_nonces.  The counts of a
\* deleted row start again: they count the calls of one row's lifetime.
NSweep ==
    /\ nonces' = DeleteExpiredNonces(nonces, now)
    /\ nonces' # nonces
    /\ LET gone == {k \in NonceKeys : ~NonceConflict(nonces', k[1], k[2])}
           RECURSIVE Sum(_)
           Sum(S) == IF S = {} THEN 0
                     ELSE LET k == CHOOSE x \in S : TRUE
                          IN granted[k] + refused[k] + Sum(S \ {k})
       IN /\ granted' = [k \in NonceKeys |-> IF k \in gone THEN 0 ELSE granted[k]]
          /\ refused' = [k \in NonceKeys |-> IF k \in gone THEN 0 ELSE refused[k]]
          /\ swept' = swept + Sum(gone)
    /\ UNCHANGED <<now, ticks, pending, serverVars>>

NNext ==
    \/ \E k \in NonceKeys : NInvoke(k)
    \/ \E k \in NonceKeys : NExecute(k)
    \/ NTick
    \/ NSweep

SpecNonce == NInit /\ [][NNext]_vars

----------------------------------------------------------------------------
(* C1: among the try_use calls for one (type, value), in any interleaving, *)
(* exactly one returns true while the row exists: the row exists exactly   *)
(* when one call has returned true since it was inserted, every other call *)
(* of that time returned false, and no call returns false without a row.   *)
NonceExactlyOnce ==
    \A k \in NonceKeys :
      /\ granted[k] = IF NonceConflict(nonces, k[1], k[2]) THEN 1 ELSE 0
      /\ refused[k] > 0 => NonceConflict(nonces, k[1], k[2])

\* three calls raced for one (type, value): one got true, one got false and
\* the third, which reached the call before either returned, is still to run
NonceRaceWitness ==
    \E k \in NonceKeys :
      granted[k] = 1 /\ refused[k] = 1 /\ pending[k] = 1 /\ swept = 0

----------------------------------------------------------------------------
(* Identities, keys and Authorization headers *)

\* config.server_hostname, a custom domain and a remote home server
SelfHost == "h.example"
CustomDomain == "custom.example"
RemoteDomain == "r.example"
Domains == {SelfHost, CustomDomain, RemoteDomain}
NoDomain == ""

SignerLocals == {"alice"}

NewLocalBare(l, d) == [local |-> l, domain |-> NoDomain]

\* UserId::new_local: "{local}@{domain}"
NewLocal(l, d) == [local |-> l, domain |-> d]

UserIds == {NewLocal(l, d) : l \in SignerLocals, d \in Domains}
NoUser == [local |-> "", domain |-> NoDomain]

\* UserId::resolve_local: a bare id gets @server_hostname, a qualified id is kept
ResolveLocal(id, hostname) ==
    IF id.domain # NoDomain THEN id ELSE NewLocal(id.local, hostname)

KeyNames == <<"K1", "K2", "K3", "K4">>
Keys == {KeyNames[i] : i \in 1..MaxKeys}
\* an armored key PublicKeys::try_from rejects
BadKey == "unparseable"
NoKey == "none"

\* the time every envelope of the model carries
EnvelopeTime == StartTime

\* what the server sees of an Authorization header
Headers ==
    [signer : UserIds, key : Keys, random : NonceValues,
     time : {EnvelopeTime}, payload_ok : BOOLEAN]

\* PublicKeys::verify_and_extract succeeds under a plausible slip: any key
VerifyAnyKey(pub, hdr) == pub \in Keys

\* PublicKeys::verify_and_extract: the signature verifies under pub
VerifyAndExtract(pub, hdr) == pub = hdr.key

\* the issuer key id of a signature and the key id of a stored key
KeyIdOf(k) == k
IssuerKeyId(hdr) == KeyIdOf(hdr.key)

\* validate_nonce_timestamp: |now - time| in whole seconds within one hour
ValidateNonceTimestamp(time, t) == ~(Abs(NumSeconds(t - time)) > 3600)

\* the expiry of an auth nonce: envelope time + 1 h
AuthNonceExpiry(time) == time + 3600 * 1000

\* a plausible slip: the nonce is consumed before the envelope is checked
ConsumeBeforeChecks(rows, hdr, uid, t) ==
    LET r == TryUseNonce(rows, "auth", hdr.random, uid, AuthNonceExpiry(hdr.time))
    IN IF ~hdr.payload_ok THEN [res |-> "invalid_payload", rows |-> r.rows]
       ELSE IF ~ValidateNonceTimestamp(hdr.time, t)
            THEN [res |-> "timestamp", rows |-> r.rows]
       ELSE IF IsNew(r) THEN [res |-> "ok", rows |-> r.rows]
       ELSE [res |-> "nonce_reused", rows |-> r.rows]

\* after a successful verification: parse the envelope, check the timestamp,
\* then try_use_nonce
ConsumeAfterVerify(rows, hdr, uid, t) ==
    IF ~hdr.payload_ok THEN [res |-> "invalid_payload", rows |-> rows]
    ELSE IF ~ValidateNonceTimestamp(hdr.time, t)
         THEN [res |-> "timestamp", rows |-> rows]
    ELSE LET r == TryUseNonce(rows, "auth", hdr.random, uid, AuthNonceExpiry(hdr.time))
         IN IF IsNew(r) THEN [res |-> "ok", rows |-> r.rows]
            ELSE [res |-> "nonce_reused", rows |-> rows]

----------------------------------------------------------------------------
(* DNS TXT resolver (src/api/src/federation/dns.rs) *)

\* a TXT entry: "user=<user>@<domain>", or one without the prefix or the '@'
TxtEntry(u, d) == [kind |-> "user", user |-> u, domain |-> d]
OtherEntry == [kind |-> "other", user |-> "", domain |-> NoDomain]

Original == [mapped |-> FALSE, local_part |-> "", domain |-> NoDomain]
Mapped(l, d) == [mapped |-> TRUE, local_part |-> l, domain |-> d]

FindUserMappingFirstMatch(entries, user_id) ==
    LET hits == {i \in 1..Len(entries) :
                   entries[i].kind = "user" /\ entries[i].user \in {user_id, "*"}}
        First(S) == CHOOSE i \in S : \A j \in S : i <= j
    IN IF hits # {} THEN Mapped(user_id, entries[First(hits)].domain) ELSE Original

\* find_user_mapping: the first exact entry, else the first wildcard, else Original
FindUserMapping(entries, user_id) ==
    LET exact == {i \in 1..Len(entries) :
                    entries[i].kind = "user" /\ entries[i].user = user_id}
        wild == {i \in 1..Len(entries) :
                    entries[i].kind = "user" /\ entries[i].user = "*"}
        First(S) == CHOOSE i \in S : \A j \in S : i <= j
    IN IF exact # {}
       THEN Mapped(entries[First(exact)].user, entries[First(exact)].domain)
       ELSE IF wild # {} THEN Mapped(user_id, entries[First(wild)].domain)
       ELSE Original

\* the answers of the DNS to one TXT query: a failure, or the entries
TxtAnswers ==
    {[ok |-> FALSE, entries |-> <<>>], [ok |-> TRUE, entries |-> <<>>],
     [ok |-> TRUE, entries |-> <<OtherEntry>>]}
    \cup {[ok |-> TRUE, entries |-> <<TxtEntry(u, d)>>] :
            u \in SignerLocals \cup {"*"}, d \in Domains}

\* DnsTxtResolver::resolve: Original when the entries are not available
DnsResolve(txt, user_id) ==
    IF ~txt.ok THEN Original ELSE FindUserMapping(txt.entries, user_id)

\* the answers of a remote server to fetch_user_keys: an error, or a key
FetchResponses ==
    {[ok |-> FALSE, key |-> NoKey]}
    \cup {[ok |-> TRUE, key |-> k] : k \in Keys \cup {BadKey}}

----------------------------------------------------------------------------
(* Authenticator and federation resolver, api revision                     *)
(* (src/api/src/auth/mod.rs, src/api/src/federation/verify.rs)             *)
(*                                                                         *)
(* An authentication is a set of possible outcomes, one per answer of the  *)
(* DNS and of the remote server it comes to ask.  An outcome carries the   *)
(* tables as the request leaves them and a trace of what the request did.  *)

NoTrace ==
    [local_found |-> FALSE, local_verified |-> FALSE, resolver |-> FALSE,
     dns |-> FALSE, dns_domain |-> NoDomain, fetched |-> FALSE,
     upserted |-> FALSE]

\* Err(AppError::Unauthorized(..)), or the error of fetch_user_keys
Reject(status, reason, urows, nrows, tr) ==
    [status |-> status, reason |-> reason, principal |-> NoUser,
     principal_key |-> NoKey, users |-> urows, nonces |-> nrows, trace |-> tr]

\* the end of every verified path: Ok(AuthenticatedUser) when the nonce is new
Finish(c, uid, key, urows, tr) ==
    IF c.res = "ok"
    THEN [status |-> "ok", reason |-> "ok", principal |-> uid,
          principal_key |-> key, users |-> urows, nonces |-> c.rows, trace |-> tr]
    ELSE Reject("unauthorized", c.res, urows, c.rows, tr)

\* a plausible slip: a local rejection is retried as an external user
LocalPathRetries(urows, nrows, hdr, t) ==
    LET uid == ResolveLocal(hdr.signer, SelfHost)
        found == uid \in DOMAIN urows
        verified == found /\ VerifyAndExtract(urows[uid], hdr)
        c == ConsumeAfterVerify(nrows, hdr, uid, t)
    IN [user_id |-> uid, found |-> found, verified |-> verified,
        final |-> found /\ verified /\ c.res = "ok",
        res |-> IF found /\ verified THEN c.res ELSE "retry",
        rows |-> IF found /\ verified THEN c.rows ELSE nrows]

\* authenticate, the local path: the signer's row is found and the signature
\* verifies under its key; every branch below that returns
LocalPath(urows, nrows, hdr, t) ==
    LET uid == ResolveLocal(hdr.signer, SelfHost)
        found == uid \in DOMAIN urows
        verified == found /\ VerifyAndExtract(urows[uid], hdr)
        c == ConsumeAfterVerify(nrows, hdr, uid, t)
    IN [user_id |-> uid, found |-> found, verified |-> verified,
        final |-> found /\ verified,
        res |-> IF found /\ verified THEN c.res ELSE "retry",
        rows |-> IF found /\ verified THEN c.rows ELSE nrows]

\* a plausible slip: ON CONFLICT (id) DO NOTHING, the first row stays
UpsertKeepsFirst(urows, id, key) ==
    [x \in DOMAIN urows \cup {id} |-> IF x \in DOMAIN urows THEN urows[x] ELSE key]

\* INSERT .. ON CONFLICT (id) DO UPDATE SET the keys
UpsertExternalUser(urows, id, key) ==
    [x \in DOMAIN urows \cup {id} |-> IF x = id THEN key ELSE urows[x]]

\* a plausible slip: the alias is looked up under the DNS-resolved domain
AliasLookupResolved(orig_local, orig_domain, local_part, domain) ==
    NewLocal(local_part, domain)

\* the id a custom-domain alias of this server is looked up under
AliasLookupId(orig_local, orig_domain, local_part, domain) ==
    NewLocal(local_part, orig_domain)

\* a plausible slip: the fetched keys are cached under the DNS-resolved id
CacheIdResolved(orig_local, orig_domain, local_part, domain) ==
    NewLocal(local_part, domain)

\* the id the fetched keys are cached under
CacheId(orig_local, orig_domain, local_part, domain) ==
    NewLocal(orig_local, orig_domain)

\* the DNS-resolved domain is this server: verify as a local user
AliasOutcome(urows, nrows, hdr, t, tr, uid) ==
    IF uid \notin DOMAIN urows
    THEN Reject("unauthorized", "local_not_found", urows, nrows, tr)
    ELSE IF ~VerifyAndExtract(urows[uid], hdr)
         THEN Reject("unauthorized", "bad_signature", urows, nrows, tr)
    ELSE Finish(ConsumeAfterVerify(nrows, hdr, uid, t), uid, urows[uid], urows, tr)

\* the remote server answered resp: upsert, then verify and consume
FetchOutcome(urows, nrows, hdr, t, tr, full_id, resp) ==
    IF ~resp.ok THEN Reject("bad_gateway", "fetch_failed", urows, nrows, tr)
    ELSE IF resp.key = BadKey
         THEN Reject("unauthorized", "invalid_remote_key", urows, nrows, tr)
    ELSE LET u2 == UpsertExternalUser(urows, full_id, resp.key)
             tr2 == [tr EXCEPT !.upserted = TRUE]
         IN IF ~VerifyAndExtract(resp.key, hdr)
            THEN Reject("unauthorized", "bad_signature", u2, nrows, tr2)
            ELSE Finish(ConsumeAfterVerify(nrows, hdr, full_id, t),
                        full_id, resp.key, u2, tr2)

\* verify_or_fetch_external_user from the DNS resolution on
AfterDns(urows, nrows, hdr, t, tr, r) ==
    LET orig_local == hdr.signer.local
        orig_domain == hdr.signer.domain
        local_part == IF r.mapped THEN r.local_part ELSE orig_local
        domain == IF r.mapped THEN r.domain ELSE orig_domain
        tr2 == [tr EXCEPT !.dns = TRUE, !.dns_domain = domain]
    IN IF local_part # orig_local
       THEN {Reject("unauthorized", "dns_mismatch", urows, nrows, tr2)}
       ELSE IF domain = SelfHost
            THEN {AliasOutcome(urows, nrows, hdr, t, tr2,
                     AliasLookupId(orig_local, orig_domain, local_part, domain))}
       ELSE {FetchOutcome(urows, nrows, hdr, t, [tr2 EXCEPT !.fetched = TRUE],
                          CacheId(orig_local, orig_domain, local_part, domain), resp) :
                resp \in FetchResponses}

\* verify_or_fetch_external_user: first the row that holds the issuer's key id
\* (signing_key_id is the issuer key id of the header's signature)
VerifyOrFetchExternalUser(urows, nrows, hdr, t, tr) ==
    LET tr1 == [tr EXCEPT !.resolver = TRUE]
        byKey == {u \in DOMAIN urows : KeyIdOf(urows[u]) = IssuerKeyId(hdr)}
        resolved == {DnsResolve(txt, hdr.signer.local) : txt \in TxtAnswers}
        Dns == UNION {AfterDns(urows, nrows, hdr, t, tr1, r) : r \in resolved}
    IN IF byKey = {} THEN Dns
       ELSE UNION {IF VerifyAndExtract(urows[u], hdr)
                   THEN {Finish(ConsumeAfterVerify(nrows, hdr, u, t),
                                u, urows[u], urows, tr1)}
                   ELSE Dns : u \in byKey}

\* authenticate
Authenticate(urows, nrows, hdr, t) ==
    LET lp == LocalPath(urows, nrows, hdr, t)
        tr == [NoTrace EXCEPT !.local_found = lp.found,
                              !.local_verified = lp.verified]
    IN IF lp.final
       THEN {Finish([res |-> lp.res, rows |-> lp.rows], lp.user_id,
                    urows[lp.user_id], urows, tr)}
       ELSE VerifyOrFetchExternalUser(urows, lp.rows, hdr, t, tr)

----------------------------------------------------------------------------
(* The api server: registration, key update and authenticated requests     *)

PathIds == UserIds \cup {NewLocal(l, NoDomain) : l \in SignerLocals}

\* what a request leaves behind for the properties to look at
Observe(op, hdr, o) ==
    [op |-> op, status |-> o.status, auth |-> o.status, reason |-> o.reason,
     principal |-> o.principal, principal_key |-> o.principal_key,
     signer |-> hdr.signer, hdr_key |-> hdr.key, trace |-> o.trace,
     nonce_row |-> \E r \in o.nonces : /\ r.nonce_type = "auth"
                                       /\ r.nonce_value = hdr.random
                                       /\ r.user_id = o.principal]

\* post_keys: the id a registration is stored under, NoUser when refused
RegistrationId(id, r) ==
    IF id.domain # NoDomain
    THEN IF r.mapped
         THEN IF r.domain = SelfHost THEN NewLocal(r.local_part, id.domain)
              ELSE NoUser
         ELSE IF id.domain # SelfHost THEN NoUser
              ELSE NewLocal(id.local, SelfHost)
    ELSE NewLocal(id.local, SelfHost)

Registered(status, uid) == [op |-> "register", status |-> status, user_id |-> uid]

\* a request is served while the budget of the exploration lasts
Serve ==
    /\ requests < MaxRequests
    /\ requests' = requests + 1

RegisterOutcomes(urows) ==
    {LET uid == RegistrationId(id, DnsResolve(txt, id.local))
     IN IF uid = NoUser \/ key = BadKey \/ addr # uid
        THEN [status |-> "bad_request", user_id |-> uid, key |-> NoKey]
        ELSE IF uid \in DOMAIN urows
             THEN [status |-> "conflict", user_id |-> uid, key |-> NoKey]
        ELSE [status |-> "created", user_id |-> uid, key |-> key] :
       id \in PathIds, txt \in TxtAnswers, key \in Keys \cup {BadKey},
       addr \in UserIds}

\* POST /user/{id}/keys
ARegister ==
    /\ Serve
    /\ \E o \in RegisterOutcomes(users) :
         /\ last' = Registered(o.status, o.user_id)
         /\ IF o.status = "created"
            THEN /\ users' = UpsertExternalUser(users, o.user_id, o.key)
                 /\ registered' = registered \cup {o.user_id}
            ELSE UNCHANGED <<users, registered>>
    /\ UNCHANGED <<nonces, now, ticks, nonceVars, procs, fed, wot, deleted_users, serviceVars>>

\* every header with every outcome its authentication can have
Authentications(urows, nrows, t) ==
    UNION {{[hdr |-> hdr, o |-> o] : o \in Authenticate(urows, nrows, hdr, t)} :
             hdr \in Headers}

\* any endpoint behind the AuthenticatedUser extractor
ARequest ==
    /\ Serve
    /\ \E a \in Authentications(users, nonces, now) :
         /\ users' = a.o.users
         /\ nonces' = a.o.nonces
         /\ last' = Observe("request", a.hdr, a.o)
    /\ UNCHANGED <<registered, now, ticks, nonceVars, procs, fed, wot, deleted_users, serviceVars>>

\* PUT /user/{id}/keys
AUpdateKeys ==
    /\ Serve
    /\ \E a \in Authentications(users, nonces, now) :
         LET obs == Observe("update_keys", a.hdr, a.o)
         IN /\ nonces' = a.o.nonces
            /\ IF a.o.status # "ok"
               THEN users' = a.o.users /\ last' = obs
               ELSE \E id \in PathIds, key \in Keys \cup {BadKey} :
                      LET uid == ResolveLocal(id, SelfHost)
                      IN IF a.o.principal # uid
                         THEN /\ users' = a.o.users
                              /\ last' = [obs EXCEPT !.status = "forbidden"]
                         ELSE IF key = BadKey
                              THEN /\ users' = a.o.users
                                   /\ last' = [obs EXCEPT !.status = "bad_request"]
                         ELSE /\ users' = [a.o.users EXCEPT ![uid] = key]
                              /\ last' = [obs EXCEPT !.status = "updated"]
    /\ UNCHANGED <<registered, now, ticks, nonceVars, procs, fed, wot, deleted_users, serviceVars>>

ATick ==
    /\ \E d \in ClockJumps : TickTo(d)
    /\ last' = NoRequest
    /\ UNCHANGED <<users, registered, requests, nonces, nonceVars, procs, fed, wot, deleted_users, serviceVars>>

\* the cleanup task of the server binary
ASweep ==
    /\ nonces' = DeleteExpiredNonces(nonces, now)
    /\ nonces' # nonces
    /\ last' = NoRequest
    /\ UNCHANGED <<users, registered, requests, now, ticks, nonceVars, procs, fed, wot, deleted_users, serviceVars>>

ANext == ARegister \/ ARequest \/ AUpdateKeys \/ ATick \/ ASweep

SpecAuth == NInit /\ [][ANext]_vars

AuthOps == {"request", "update_keys"}
Authenticated == last.op \in AuthOps /\ last.auth = "ok"

(* C4: whenever the authenticator returns a principal with user_id U, the  *)
(* header's signature verified under the signing key stored for U or       *)
(* fetched for U in this request, the principal carries exactly that key,  *)
(* and no principal is returned without a successful verification.         *)
PrincipalVerified ==
    /\ Authenticated =>
         /\ last.principal \in DOMAIN users
         /\ last.principal_key = last.hdr_key
         /\ last.status # "updated" => users[last.principal] = last.principal_key
    /\ (last.op \in AuthOps /\ last.auth # "ok") => last.principal = NoUser

PrincipalFetchedWitness ==
    /\ last.op = "request" /\ last.auth = "ok"
    /\ last.trace.fetched
    /\ users[last.principal] = last.hdr_key

(* C5: a step adds a row to the nonce store only when the signature has    *)
(* verified, the envelope has parsed and the timestamp check has passed; a *)
(* request rejected for a bad signature, an invalid payload or a timestamp *)
(* out of the window leaves the nonce store unchanged.                     *)
NonceConsumedLast ==
    [][/\ ~(nonces' \subseteq nonces) =>
            /\ last'.op \in AuthOps /\ last'.auth = "ok"
            /\ last'.principal_key = last'.hdr_key
       /\ (/\ last'.op \in AuthOps
           /\ last'.reason \in {"bad_signature", "invalid_payload", "timestamp"})
          => nonces' = nonces]_vars

TimestampRejectedWitness ==
    /\ last.op = "request" /\ last.reason = "timestamp"
    /\ last.trace.local_verified

(* C7: when the signer is found locally and the signature verifies under   *)
(* the stored key, the answer (success, invalid payload, timestamp or      *)
(* reused nonce) is decided locally: the resolver is not invoked and no    *)
(* DNS query, remote fetch or cache upsert happens.                        *)
LocalDecides ==
    (last.op \in AuthOps /\ last.trace.local_found /\ last.trace.local_verified) =>
      /\ last.reason \in {"ok", "invalid_payload", "timestamp", "nonce_reused"}
      /\ ~last.trace.resolver /\ ~last.trace.dns
      /\ ~last.trace.fetched /\ ~last.trace.upserted

LocalReplayWitness ==
    /\ last.op = "request" /\ last.trace.local_verified
    /\ last.reason = "nonce_reused"

(* C8: a signer whose claimed domain is this server's hostname and who is  *)
(* not found locally is rejected, with no remote key fetch for that signer *)
(* and no row at this server's hostname created from remote keys.          *)
LocalDomainClaimRejected ==
    (last.op \in AuthOps /\ last.signer.domain = SelfHost /\ ~last.trace.local_found) =>
      /\ last.auth # "ok"
      /\ ~last.trace.fetched
      /\ ~last.trace.upserted

(* C9: the key of a row created by local registration changes only through *)
(* a key update authenticated as that same user; no other request, and no  *)
(* federation discovery whatever the DNS answers, overwrites it.           *)
RegisteredKeyOwned ==
    [][\A u \in registered :
         users'[u] # users[u] =>
           /\ last'.op = "update_keys" /\ last'.status = "updated"
           /\ last'.principal = u]_vars

CachedUnderAdvertisedId ==
    [][(last'.op \in AuthOps /\ last'.trace.upserted) =>
         /\ last'.signer \in DOMAIN users'
         /\ \A u \in DOMAIN users' \ {last'.signer} :
              u \in DOMAIN users /\ users'[u] = users[u]
         /\ last'.auth = "ok" => last'.principal = last'.signer]_vars

MappedFetchWitness ==
    /\ last.op = "request" /\ last.auth = "ok"
    /\ last.trace.fetched /\ last.trace.upserted
    /\ last.trace.dns_domain # last.signer.domain
    /\ last.principal = last.signer
    /\ DOMAIN users = {last.signer}

----------------------------------------------------------------------------
(* The crypton-api server (src/crypton-api): local users are stored under  *)
(* their bare local part, principals are found by the issuer key id of the *)
(* signature, and the keys handler authenticates by hand.                  *)

Bare(l) == NewLocal(l, NoDomain)

\* UserId::local_part
LocalPartOf(uid) == uid.local

\* UserId::resolve_local: ids of this server only, stored bare
CryptonResolveLocal(id) ==
    IF id.domain = NoDomain \/ id.domain = SelfHost THEN Bare(id.local) ELSE NoUser

\* UserId::resolve: this server's ids bare, others in full
CryptonResolve(id) ==
    IF id.domain = SelfHost THEN Bare(id.local) ELSE id

CryptonDomains == {SelfHost, RemoteDomain}
CryptonPathIds ==
    {Bare(l) : l \in SignerLocals} \cup
    {NewLocal(l, d) : l \in SignerLocals, d \in CryptonDomains}
CryptonHeaders ==
    {h \in Headers : h.signer.domain \in CryptonDomains /\ h.time = EnvelopeTime}

\* a row of used_nonces; by records the header that consumed it (history)
UsedNonce(n, uid, hdr) == [nonce |-> n, user_id |-> uid, by |-> hdr]

\* INSERT INTO used_nonces .. ON CONFLICT (nonce) DO NOTHING
CryptonTryUseNonce(rows, hdr, uid) ==
    IF \E r \in rows : r.nonce = hdr.random
    THEN [rows |-> rows, rows_affected |-> 0]
    ELSE [rows |-> rows \cup {UsedNonce(hdr.random, uid, hdr)}, rows_affected |-> 1]

\* the header was presented before and authenticated
Replayed(rows, hdr) == \E r \in rows : r.by = hdr

\* an answer of authenticate: the tables as it leaves them and AuthResult
CryptonResult(status, reason, uid, key, is_new, urows, nrows) ==
    [status |-> status, reason |-> reason, principal |-> uid,
     principal_key |-> key, nonce_is_new |-> is_new,
     users |-> urows, nonces |-> nrows]

\* get_user_by_signing_key_id: one of the rows that hold the key id
BySigningKeyId(urows, key_id) == {u \in DOMAIN urows : KeyIdOf(urows[u]) = key_id}

\* federation::verify::verify_or_fetch_external_user from the signer on
CryptonFetchAndVerify(urows, nrows, hdr, resp) ==
    LET full_id == NewLocal(hdr.signer.local, hdr.signer.domain)
    IN IF hdr.signer.domain = SelfHost
       THEN CryptonResult("unauthorized", "claims_local_domain", NoUser, NoKey,
                          TRUE, urows, nrows)
       ELSE IF ~resp.ok
            THEN CryptonResult("bad_gateway", "fetch_failed", NoUser, NoKey,
                               TRUE, urows, nrows)
       ELSE IF resp.key = BadKey
            THEN CryptonResult("unauthorized", "invalid_remote_key", NoUser, NoKey,
                               TRUE, urows, nrows)
       ELSE LET u2 == UpsertExternalUser(urows, full_id, resp.key)
                r == CryptonTryUseNonce(nrows, hdr, full_id)
            IN IF ~VerifyAndExtract(resp.key, hdr)
               THEN CryptonResult("unauthorized", "bad_signature", NoUser, NoKey,
                                  TRUE, u2, nrows)
               ELSE IF ~hdr.payload_ok
                    THEN CryptonResult("unauthorized", "invalid_payload", NoUser,
                                       NoKey, TRUE, u2, nrows)
               ELSE IF ~IsNew(r)
                    THEN CryptonResult("unauthorized", "nonce_reused", NoUser,
                                       NoKey, TRUE, u2, nrows)
               ELSE CryptonResult("ok", "ok", full_id, resp.key, TRUE, u2, r.rows)

\* federation::verify::verify_or_fetch_external_user
CryptonVerifyOrFetch(urows, nrows, hdr) ==
    LET External == {CryptonFetchAndVerify(urows, nrows, hdr, resp) :
                       resp \in FetchResponses}
        byKey == BySigningKeyId(urows, IssuerKeyId(hdr))
    IN IF byKey = {} THEN External
       ELSE UNION {IF VerifyAndExtract(urows[u], hdr)
                   THEN IF ~hdr.payload_ok
                        THEN {CryptonResult("unauthorized", "invalid_payload",
                                            NoUser, NoKey, TRUE, urows, nrows)}
                        ELSE LET r == CryptonTryUseNonce(nrows, hdr, u)
                             IN IF IsNew(r)
                                THEN {CryptonResult("ok", "ok", u, urows[u], TRUE,
                                                    urows, r.rows)}
                                ELSE {CryptonResult("unauthorized", "nonce_reused",
                                                    NoUser, NoKey, TRUE, urows, nrows)}
                   ELSE External : u \in byKey}

\* auth::authenticate: the newness of the nonce is left to the caller
CryptonAuthenticate(urows, nrows, hdr) ==
    LET byKey == BySigningKeyId(urows, IssuerKeyId(hdr))
    IN IF byKey = {} THEN CryptonVerifyOrFetch(urows, nrows, hdr)
       ELSE UNION {IF VerifyAndExtract(urows[u], hdr)
                   THEN IF ~hdr.payload_ok
                        THEN {CryptonResult("unauthorized", "invalid_payload",
                                            NoUser, NoKey, TRUE, urows, nrows)}
                        ELSE LET r == CryptonTryUseNonce(nrows, hdr, u)
                             IN {CryptonResult("ok", "ok", u, urows[u], IsNew(r),
                                               urows, r.rows)}
                   ELSE CryptonVerifyOrFetch(urows, nrows, hdr) : u \in byKey}

CryptonAuthentications(urows, nrows) ==
    UNION {{[hdr |-> hdr, o |-> o] : o \in CryptonAuthenticate(urows, nrows, hdr)} :
             hdr \in CryptonHeaders}

\* what a crypton-api request leaves behind for the properties to look at
CryptonObserve(op, a, rows, status, id, served, key) ==
    [op |-> op, status |-> status, auth |-> a.o.status, reason |-> a.o.reason,
     principal |-> a.o.principal, signer |-> a.hdr.signer, hdr_key |-> a.hdr.key,
     replayed |-> Replayed(rows, a.hdr), nonce_is_new |-> a.o.nonce_is_new,
     requested |-> id, served |-> served, served_key |-> key]

\* POST /user/{id}/keys
CRegister ==
    /\ Serve
    /\ \E id \in CryptonPathIds, key \in Keys \cup {BadKey} :
         LET uid == CryptonResolveLocal(id)
         IN IF uid = NoUser \/ key = BadKey
            THEN /\ last' = Registered("bad_request", uid)
                 /\ UNCHANGED <<users, registered>>
            ELSE IF uid \in DOMAIN users
                 THEN /\ last' = Registered("conflict", uid)
                      /\ UNCHANGED <<users, registered>>
            ELSE /\ users' = UpsertExternalUser(users, uid, key)
                 /\ registered' = registered \cup {uid}
                 /\ last' = Registered("created", uid)
    /\ UNCHANGED <<nonces, now, ticks, nonceVars, procs, fed, wot, deleted_users, serviceVars>>

\* any endpoint behind the AuthenticatedUser extractor
CRequest ==
    /\ Serve
    /\ \E a \in CryptonAuthentications(users, nonces) :
         /\ users' = a.o.users
         /\ nonces' = a.o.nonces
         /\ last' = CryptonObserve("request", a, nonces,
                       IF a.o.status = "ok" /\ ~a.o.nonce_is_new
                       THEN "unauthorized" ELSE a.o.status,
                       NoUser, NoUser, NoKey)
    /\ UNCHANGED <<registered, now, ticks, nonceVars, procs, fed, wot, deleted_users, serviceVars>>

\* fetch_local_user_keys
FetchLocalUserKeys(urows, l) ==
    IF Bare(l) \in DOMAIN urows
    THEN [status |-> "ok", served |-> Bare(l), key |-> urows[Bare(l)], users |-> urows]
    ELSE [status |-> "not_found", served |-> NoUser, key |-> NoKey, users |-> urows]

\* get_keys: the one replayed nonce the handler lets through
CallbackAllowed(id, principal) ==
    id.domain = NoDomain /\ id.local = LocalPartOf(principal)

\* get_keys after authenticate answered Ok
KeysAnswers(urows, id, is_new, principal) ==
    IF ~is_new
    THEN IF CallbackAllowed(id, principal)
         THEN {FetchLocalUserKeys(urows, id.local)}
         ELSE {[status |-> "unauthorized", served |-> NoUser, key |-> NoKey,
                users |-> urows]}
    ELSE IF id.domain = NoDomain \/ id.domain = SelfHost
         THEN {FetchLocalUserKeys(urows, id.local)}
    ELSE {IF ~resp.ok \/ resp.key = BadKey
          THEN [status |-> "bad_gateway", served |-> NoUser, key |-> NoKey,
                users |-> urows]
          ELSE [status |-> "ok", served |-> id, key |-> resp.key,
                users |-> UpsertExternalUser(urows, id, resp.key)] :
            resp \in FetchResponses}

\* GET /user/{id}/keys
CGetKeys ==
    /\ Serve
    /\ \E a \in CryptonAuthentications(users, nonces), id \in CryptonPathIds :
         /\ nonces' = a.o.nonces
         /\ IF a.o.status # "ok"
            THEN /\ users' = a.o.users
                 /\ last' = CryptonObserve("get_keys", a, nonces, a.o.status,
                                           id, NoUser, NoKey)
            ELSE \E k \in KeysAnswers(a.o.users, id, a.o.nonce_is_new, a.o.principal) :
                   /\ users' = k.users
                   /\ last' = CryptonObserve("get_keys", a, nonces, k.status,
                                             id, k.served, k.key)
    /\ UNCHANGED <<registered, now, ticks, nonceVars, procs, fed, wot, deleted_users, serviceVars>>

CNext == CRegister \/ CRequest \/ CGetKeys

SpecCrypton == NInit /\ [][CNext]_vars

(* C2: a header that authenticated once is answered 401 the second time,   *)
(* on every endpoint, except when the second call is GET /user/<self>/keys *)
(* for the caller's own id.                                                *)
ReplayRejected ==
    (last.op \in {"request", "get_keys"} /\ last.replayed) =>
      \/ last.status = "unauthorized"
      \/ /\ last.op = "get_keys"
         /\ CryptonResolve(last.requested) = last.principal

(* C3: the keys handler accepts a header whose nonce was already consumed  *)
(* if and only if the requested id normalizes to the principal's own id; a *)
(* replayed nonce asking for any other user, one who shares the local part *)
(* included, is answered 401 and returns no key material.                  *)
CallbackScopedToSelf ==
    (last.op = "get_keys" /\ last.auth = "ok" /\ ~last.nonce_is_new) =>
      /\ last.status = "ok" <=> CryptonResolve(last.requested) = last.principal
      /\ CryptonResolve(last.requested) # last.principal =>
           last.status = "unauthorized" /\ last.served_key = NoKey

----------------------------------------------------------------------------
(* The timestamp windows as functions of the server clock and the time a   *)
(* client wrote, both in milliseconds                                      *)

MaxClockSteps == 3

QR_NONCE_WINDOW_SECONDS == 5 * 60

\* post_signature: the qr nonce's time against the server clock
QrNonceTimeOk(time, t) == ~(Abs(NumSeconds(t - time)) > QR_NONCE_WINDOW_SECONDS)

WindowClocks == {StartTime + 250 * k : k \in 0..MaxClockSteps}

\* distances around the two window edges, on both sides of the clock
WindowOffsets ==
    {0, 1000, 299000, 300000, 300500, 301000,
     3599000, 3600000, 3600500, 3601000}

WindowTimes ==
    {StartTime + d : d \in WindowOffsets} \cup {StartTime - d : d \in WindowOffsets}

WInit ==
    /\ users = <<>> /\ registered = {} /\ last = NoRequest /\ requests = 0 /\ procs = NoProcs /\ fed = NoFederation
    /\ wot = NoWot /\ deleted_users = <<>> /\ ServicesIdle
    /\ nonces = {} /\ ticks = 0
    /\ pending = [k \in NonceKeys |-> 0]
    /\ granted = [k \in NonceKeys |-> 0]
    /\ refused = [k \in NonceKeys |-> 0]
    /\ swept = 0
    /\ now \in WindowClocks

Checked(op, time, ok) == [op |-> op, time |-> time, ok |-> ok]

\* validate_nonce_timestamp applied to an envelope's time
WAuthCheck ==
    /\ \E time \in WindowTimes :
         last' = Checked("auth_window", time, ValidateNonceTimestamp(time, now))
    /\ UNCHANGED <<users, registered, requests, nonces, now, ticks, nonceVars, procs, fed, wot, deleted_users, serviceVars>>

\* the window check of post_signature applied to a qr nonce's time
WQrCheck ==
    /\ \E time \in WindowTimes :
         last' = Checked("qr_window", time, QrNonceTimeOk(time, now))
    /\ UNCHANGED <<users, registered, requests, nonces, now, ticks, nonceVars, procs, fed, wot, deleted_users, serviceVars>>

WNext == WAuthCheck \/ WQrCheck

SpecWindow == WInit /\ [][WNext]_vars

(* C6: an auth envelope whose time differs from the server clock by more   *)
(* than one hour, either way, is rejected, a qr nonce whose time differs   *)
(* by more than five minutes is rejected, and a time inside its window is  *)
(* never rejected by the check.                                            *)
WindowExact ==
    /\ last.op = "auth_window" =>
         (last.ok <=> Abs(now - last.time) <= 3600 * 1000)
    /\ last.op = "qr_window" =>
         (last.ok <=> Abs(now - last.time) <= 300 * 1000)

----------------------------------------------------------------------------
(* SpecDiscover: concurrent first-time authentications of one remote user  *)
(* on the api server.  An authentication is taken apart at its database    *)
(* and network calls: get_user, get_user_by_signing_key_id with the DNS    *)
(* resolution, fetch_user_keys, upsert_external_user, try_use_nonce.       *)

RemoteSigner == NewLocal("alice", RemoteDomain)

\* the headers request p may carry: its own nonce, the remote user's id
DiscoverHeaders(p) ==
    {h \in Headers : h.signer = RemoteSigner /\ h.random = p /\ h.payload_ok}

InFlight(pc, hdr, uid, key, upserted, res) ==
    [pc |-> pc, hdr |-> hdr, uid |-> uid, key |-> key, upserted |-> upserted,
     res |-> res]

Done(q, res) == [q EXCEPT !.pc = "done", !.res = res]

DiscoverFrame == UNCHANGED <<registered, last, requests, now, ticks, nonceVars, fed, wot, deleted_users, serviceVars>>

\* the request arrives with its Authorization
DStart(p) ==
    /\ procs[p].pc = "idle"
    /\ \E h \in DiscoverHeaders(p) :
         procs' = [procs EXCEPT ![p] = InFlight("local", h, NoUser, NoKey, FALSE, "none")]
    /\ UNCHANGED <<users, nonces>>
    /\ DiscoverFrame

\* authenticate: get_user under the signer's id, verify under the stored key
DLocal(p) ==
    /\ procs[p].pc = "local"
    /\ LET q == procs[p]
           uid == ResolveLocal(q.hdr.signer, SelfHost)
       IN procs' = [procs EXCEPT ![p] =
                      IF uid \in DOMAIN users /\ VerifyAndExtract(users[uid], q.hdr)
                      THEN [q EXCEPT !.pc = "consume", !.uid = uid, !.key = users[uid]]
                      ELSE [q EXCEPT !.pc = "resolve"]]
    /\ UNCHANGED <<users, nonces>>
    /\ DiscoverFrame

\* verify_or_fetch_external_user up to the fetch: the row holding the key id,
\* then the DNS resolution and, for an alias of this server, the local row
DResolve(p) ==
    /\ procs[p].pc = "resolve"
    /\ LET q == procs[p]
           byKey == {u \in DOMAIN users : /\ KeyIdOf(users[u]) = IssuerKeyId(q.hdr)
                                          /\ VerifyAndExtract(users[u], q.hdr)}
       IN IF byKey # {}
          THEN \E u \in byKey :
                 procs' = [procs EXCEPT ![p] =
                             [q EXCEPT !.pc = "consume", !.uid = u, !.key = users[u]]]
          ELSE \E txt \in TxtAnswers :
                 LET r == DnsResolve(txt, q.hdr.signer.local)
                     domain == IF r.mapped THEN r.domain ELSE q.hdr.signer.domain
                     uid == AliasLookupId(q.hdr.signer.local, q.hdr.signer.domain,
                                          q.hdr.signer.local, domain)
                 IN procs' = [procs EXCEPT ![p] =
                      IF domain # SelfHost THEN [q EXCEPT !.pc = "fetch"]
                      ELSE IF uid \notin DOMAIN users THEN Done(q, "local_not_found")
                      ELSE IF ~VerifyAndExtract(users[uid], q.hdr)
                           THEN Done(q, "bad_signature")
                      ELSE [q EXCEPT !.pc = "consume", !.uid = uid, !.key = users[uid]]]
    /\ UNCHANGED <<users, nonces>>
    /\ DiscoverFrame

\* fetch_user_keys and PublicKeys::try_from on the answer
DFetch(p) ==
    /\ procs[p].pc = "fetch"
    /\ \E resp \in FetchResponses :
         procs' = [procs EXCEPT ![p] =
                     IF ~resp.ok THEN Done(procs[p], "fetch_failed")
                     ELSE IF resp.key = BadKey THEN Done(procs[p], "invalid_remote_key")
                     ELSE [procs[p] EXCEPT !.pc = "upsert", !.key = resp.key]]
    /\ UNCHANGED <<users, nonces>>
    /\ DiscoverFrame

\* upsert_external_user under the advertised id, then verify_and_extract
\* under the fetched key
DUpsert(p) ==
    /\ procs[p].pc = "upsert"
    /\ LET q == procs[p]
           full_id == CacheId(q.hdr.signer.local, q.hdr.signer.domain,
                              q.hdr.signer.local, q.hdr.signer.domain)
       IN /\ users' = UpsertExternalUser(users, full_id, q.key)
          /\ procs' = [procs EXCEPT ![p] =
                         IF VerifyAndExtract(q.key, q.hdr)
                         THEN [q EXCEPT !.pc = "consume", !.uid = full_id,
                                        !.upserted = TRUE]
                         ELSE [Done(q, "bad_signature") EXCEPT !.upserted = TRUE]]
    /\ UNCHANGED nonces
    /\ DiscoverFrame

\* the envelope is parsed, its timestamp checked and try_use_nonce called
DConsume(p) ==
    /\ procs[p].pc = "consume"
    /\ LET q == procs[p]
           c == ConsumeAfterVerify(nonces, q.hdr, q.uid, now)
       IN /\ nonces' = c.rows
          /\ procs' = [procs EXCEPT ![p] = Done(q, c.res)]
    /\ UNCHANGED users
    /\ DiscoverFrame

DNext ==
    \E p \in Procs :
      DStart(p) \/ DLocal(p) \/ DResolve(p) \/ DFetch(p) \/ DUpsert(p) \/ DConsume(p)

SpecDiscover == NInit /\ [][DNext]_vars

Active(p) == procs[p].pc # "idle"
Upserted(p) == Active(p) /\ procs[p].upserted

(* C12: two concurrent first-time authentications of the same unknown      *)
(* remote user, in any interleaving, leave exactly one cached row for that *)
(* id, holding fetched keys; each upsert takes effect (the later one wins) *)
(* or the request observes the row of the other, and no request fails      *)
(* because of the other's upsert.                                          *)
DiscoveryConverges ==
    [][/\ \A p \in Procs :
            (Upserted(p)' /\ ~Upserted(p)) => users'[RemoteSigner] = procs'[p].key
       /\ (\E p \in Procs : Upserted(p)') =>
            /\ DOMAIN users' = {RemoteSigner}
            /\ users'[RemoteSigner] \in {procs'[p].key : p \in {x \in Procs : Upserted(x)'}}
       /\ \A p \in Procs :
            (Active(p)' /\ procs'[p].pc = "done") =>
               /\ (procs'[p].upserted /\ procs'[p].key = procs'[p].hdr.key)
                     => procs'[p].res = "ok"
               /\ procs'[p].res = "ok" => procs'[p].key = procs'[p].hdr.key]_vars

DiscoveryRaceWitness ==
    /\ \A p \in {1, 2} : Upserted(p) /\ procs[p].pc = "done" /\ procs[p].res = "ok"
    /\ procs[1].key # procs[2].key

----------------------------------------------------------------------------
(* SpecFederation: two crypton-api servers fetching keys from each other.  *)
(* fetch_user_keys is a GET /user/<local>/keys on the other server with    *)
(* the caller's Authorization forwarded; the other server's get_keys runs  *)
(* as a nested call, and the caller waits for its answer.                  *)

Servers == {SelfHost, RemoteDomain}
FedLocals == {"alice", "bob"}
FedPathIds ==
    {Bare(l) : l \in FedLocals} \cup {NewLocal(l, d) : l \in FedLocals, d \in Servers}
FedHeaders ==
    {h \in Headers : h.signer.domain \in Servers /\ h.random = 1 /\ h.payload_ok}

NoRet == [valid |-> FALSE, ok |-> FALSE, key |-> NoKey]
NoAnswer == [status |-> "none", key |-> NoKey, server |-> NoDomain, id |-> NoUser,
             depth |-> 0]

\* a get_keys call in progress on a server
Frame(srv, id, hdr) ==
    [server |-> srv, id |-> id, hdr |-> hdr, pc |-> "auth", principal |-> NoUser,
     is_new |-> TRUE]

FInit ==
    /\ users = <<>> /\ registered = {} /\ last = NoRequest /\ requests = 0
    /\ procs = NoProcs /\ wot = NoWot /\ deleted_users = <<>> /\ ServicesIdle
    /\ nonces = {} /\ now = StartTime /\ ticks = 0
    /\ pending = [k \in NonceKeys |-> 0]
    /\ granted = [k \in NonceKeys |-> 0]
    /\ refused = [k \in NonceKeys |-> 0]
    /\ swept = 0
    /\ fed = [users |-> [srv \in Servers |-> <<>>],
              nonces |-> [srv \in Servers |-> {}],
              stack |-> <<>>, ret |-> NoRet, answer |-> NoAnswer, deepest |-> 0]

FedFrame ==
    UNCHANGED <<users, registered, last, procs, wot, deleted_users, nonces, now, ticks,
                nonceVars, serviceVars>>

Top == fed.stack[Len(fed.stack)]
Running(pc) == fed.stack # <<>> /\ Top.pc = pc

\* the call on top of the stack goes on in a new state
Continue(f, ftop) == [f EXCEPT !.stack[Len(f.stack)] = ftop, !.ret = NoRet]

\* fetch_user_keys: the call on top waits for a get_keys of the other server
Call(f, ftop, srv, id) ==
    [f EXCEPT !.stack = Append([f.stack EXCEPT ![Len(f.stack)] = ftop],
                               Frame(srv, id, ftop.hdr)),
              !.ret = NoRet,
              !.deepest = IF Len(f.stack) + 1 > f.deepest THEN Len(f.stack) + 1
                          ELSE f.deepest]

\* the call on top answers: to its caller, or to the client
Return(f, status, key) ==
    IF Len(f.stack) = 1
    THEN [f EXCEPT !.stack = <<>>, !.ret = NoRet,
                   !.answer = [status |-> status, key |-> key,
                               server |-> f.stack[1].server, id |-> f.stack[1].id,
                               depth |-> f.deepest]]
    ELSE [f EXCEPT !.stack = SubSeq(f.stack, 1, Len(f.stack) - 1),
                   !.ret = [valid |-> TRUE, ok |-> status = "ok",
                            key |-> IF status = "ok" THEN key ELSE NoKey]]

\* POST /user/{id}/keys on one of the servers
FRegister ==
    /\ fed.stack = <<>>
    /\ Serve
    /\ \E srv \in Servers, l \in FedLocals, key \in Keys :
         /\ Bare(l) \notin DOMAIN fed.users[srv]
         /\ fed' = [fed EXCEPT !.users[srv] = UpsertExternalUser(@, Bare(l), key)]
    /\ FedFrame

\* a client sends GET /user/{id}/keys with its Authorization
FClientRequest ==
    /\ fed.stack = <<>>
    /\ Serve
    /\ \E srv \in Servers, id \in FedPathIds, hdr \in FedHeaders :
         fed' = [fed EXCEPT !.stack = <<Frame(srv, id, hdr)>>, !.ret = NoRet,
                            !.answer = NoAnswer, !.deepest = 1]
    /\ FedFrame

ClaimsLocalDomainIgnored(hdr, srv) == FALSE

\* verify_or_fetch_external_user: a signer of this server's own domain whose
\* key id matched no row is rejected, never fetched
ClaimsLocalDomain(hdr, srv) == hdr.signer.domain = srv

\* authenticate on the server of the call on top: the row holding the key
\* id, else the resolver, which fetches the signer's keys from its domain
FAuth ==
    /\ Running("auth")
    /\ LET f == Top
           srv == f.server
           byKey == {u \in BySigningKeyId(fed.users[srv], IssuerKeyId(f.hdr)) :
                       VerifyAndExtract(fed.users[srv][u], f.hdr)}
       IN IF byKey # {}
          THEN \E u \in byKey :
                 LET r == CryptonTryUseNonce(fed.nonces[srv], f.hdr, u)
                 IN fed' = [Continue(fed, [f EXCEPT !.pc = "handler", !.principal = u,
                                                    !.is_new = IsNew(r)])
                              EXCEPT !.nonces[srv] = r.rows]
          ELSE IF ClaimsLocalDomain(f.hdr, srv)
               THEN fed' = Return(fed, "unauthorized", NoKey)
          ELSE \/ fed' = Call(fed, [f EXCEPT !.pc = "await_auth"],
                              f.hdr.signer.domain, Bare(f.hdr.signer.local))
               \/ fed' = Return(fed, "bad_gateway", NoKey)
    /\ UNCHANGED requests
    /\ FedFrame

\* the resolver after fetch_user_keys answered: upsert, verify, consume
FAuthReturn ==
    /\ Running("await_auth")
    /\ fed.ret.valid
    /\ LET f == Top
           srv == f.server
           full_id == NewLocal(f.hdr.signer.local, f.hdr.signer.domain)
           r == CryptonTryUseNonce(fed.nonces[srv], f.hdr, full_id)
           cached == [fed EXCEPT !.users[srv] =
                        UpsertExternalUser(@, full_id, fed.ret.key)]
       IN IF ~fed.ret.ok THEN fed' = Return(fed, "bad_gateway", NoKey)
          ELSE IF ~VerifyAndExtract(fed.ret.key, f.hdr) \/ ~IsNew(r)
               THEN fed' = Return(cached, "unauthorized", NoKey)
          ELSE fed' = [Continue(cached, [f EXCEPT !.pc = "handler",
                                                  !.principal = full_id,
                                                  !.is_new = TRUE])
                         EXCEPT !.nonces[srv] = r.rows]
    /\ UNCHANGED requests
    /\ FedFrame

\* get_keys after authenticate: the replayed-nonce test, then CASE A and B
FHandler ==
    /\ Running("handler")
    /\ LET f == Top
           srv == f.server
           loc == FetchLocalUserKeys(fed.users[srv], f.id.local)
       IN IF ~f.is_new
          THEN IF CallbackAllowed(f.id, f.principal)
               THEN fed' = Return(fed, loc.status, loc.key)
               ELSE fed' = Return(fed, "unauthorized", NoKey)
          ELSE IF f.id.domain = NoDomain \/ f.id.domain = srv
               THEN fed' = Return(fed, loc.status, loc.key)
          ELSE \/ fed' = Call(fed, [f EXCEPT !.pc = "await_keys"],
                              f.id.domain, Bare(f.id.local))
               \/ fed' = Return(fed, "bad_gateway", NoKey)
    /\ UNCHANGED requests
    /\ FedFrame

\* get_keys CASE A after fetch_user_keys answered: cache and answer
FKeysReturn ==
    /\ Running("await_keys")
    /\ fed.ret.valid
    /\ LET f == Top
           srv == f.server
       IN IF ~fed.ret.ok THEN fed' = Return(fed, "bad_gateway", NoKey)
          ELSE fed' = Return([fed EXCEPT !.users[srv] =
                                 UpsertExternalUser(@, f.id, fed.ret.key)],
                             "ok", fed.ret.key)
    /\ UNCHANGED requests
    /\ FedFrame

FStep == FAuth \/ FAuthReturn \/ FHandler \/ FKeysReturn

FNext == FRegister \/ FClientRequest \/ FStep

SpecFederation == FInit /\ [][FNext]_vars

\* a server keeps working on the requests it has accepted
FairFederation == SpecFederation /\ WF_vars(FStep)

\* the answered request asked one server for a user of the other
AnsweredRemote ==
    /\ fed.answer.status = "ok"
    /\ fed.answer.id.domain \notin {NoDomain, fed.answer.server}

\* C13: cross-server key discovery terminates: the chain of nested key
\* fetches never grows past caller -> remote -> callback, the callback is
\* answered without a further fetch, every accepted request is eventually
\* answered, and a successful answer for a remote user leaves that user's
\* keys, as the remote server holds them, cached at the asked server
DiscoveryTerminates ==
    /\ [](Len(fed.stack) <= 3)
    /\ [](Len(fed.stack) = 3 =>
            Top.server = fed.stack[1].server /\ Top.pc \in {"auth", "handler"})
    /\ (fed.stack # <<>>) ~> (fed.stack = <<>>)
    /\ [](AnsweredRemote =>
            /\ fed.answer.id \in DOMAIN fed.users[fed.answer.server]
            /\ fed.users[fed.answer.server][fed.answer.id] = fed.answer.key
            /\ Bare(fed.answer.id.local) \in DOMAIN fed.users[fed.answer.id.domain]
            /\ fed.answer.key =
                 fed.users[fed.answer.id.domain][Bare(fed.answer.id.local)])

\* a request that went through the callback was answered with the keys
CallbackChainWitness ==
    /\ AnsweredRemote
    /\ fed.answer.depth = 3
    /\ fed.stack = <<>>

----------------------------------------------------------------------------
(* Tombstones (src/api/src/db/deleted_users.rs, db/users.rs delete_user)     *)
(* and the web-of-trust graph read (src/api/src/routes/keys.rs).  In SpecWot *)
(* a users row holds the primary fingerprint of the user's key.              *)

\* a second tombstone for an id that already has one
TombstoneConflict(tombs, id) == id \in DOMAIN tombs

DeleteUserRowOnly(urows, tombs, id, fp) ==
    [ok |-> TRUE, removed |-> id \in DOMAIN urows,
     users |-> [u \in DOMAIN urows \ {id} |-> urows[u]], deleted |-> tombs]

\* db::users::delete_user: one transaction, the tombstone first, then the row
DeleteUser(urows, tombs, id, fp) ==
    IF TombstoneConflict(tombs, id)
    THEN [ok |-> FALSE, removed |-> FALSE, users |-> urows, deleted |-> tombs]
    ELSE [ok |-> TRUE, removed |-> id \in DOMAIN urows,
          users |-> [u \in DOMAIN urows \ {id} |-> urows[u]],
          deleted |-> [t \in DOMAIN tombs \cup {id} |->
                         IF t = id THEN fp ELSE tombs[t]]]

\* db::deleted_users::get_deleted_fingerprints
GetDeletedFingerprints(tombs, fps) == {tombs[t] : t \in DOMAIN tombs} \cap fps

\* db::users::get_user_by_fingerprint
GetUserByFingerprint(urows, fp) == {u \in DOMAIN urows : urows[u] = fp}

\* signatures stored at most
MaxSignatures == 3

WotFingerprints == {"F1", "F2", "F3"}
RootFingerprint == "F1"
WotOwner(fp) == NewLocal(fp, SelfHost)
WotEdges == {e \in [signer : WotFingerprints, target : WotFingerprints] :
               e.signer # e.target}

DEFAULT_MAX_DEPTH == 2
MAX_MAX_DEPTH == 4
DEFAULT_MAX_NODES == 200
MAX_MAX_NODES == 1000
DEFAULT_MAX_EDGES == 500
MAX_MAX_EDGES == 3000
TIME_BUDGET_MS == 1200

\* a query parameter the request leaves out
NoParam == -1
Unwrap(v, default) == IF v = NoParam THEN default ELSE v

ClampNone(v, lo, hi) == v

Clamp(v, lo, hi) == IF v < lo THEN lo ELSE IF v > hi THEN hi ELSE v

Directions == {"inbound", "outbound", "both"}
DepthParams == {NoParam, 0, MAX_MAX_DEPTH + 5}
NodeParams == {NoParam, 0, 2, MAX_MAX_NODES + 1}
EdgeParams == {NoParam, 0, 2, MAX_MAX_EDGES + 1}
\* what Instant::elapsed can read at a check: under the budget, or at it
ElapsedSamples == {TIME_BUDGET_MS - 1, TIME_BUDGET_MS}

\* db::wot::get_edges_for_frontier
GetEdgesForFrontier(sigs, frontier, direction) ==
    {e \in sigs :
        \/ direction \in {"inbound", "both"} /\ e.target \in frontier
        \/ direction \in {"outbound", "both"} /\ e.signer \in frontier}

\* get_signatures: is_relevant
IsRelevant(e, frontier, direction) ==
    \/ direction \in {"inbound", "both"} /\ e.target \in frontier
    \/ direction \in {"outbound", "both"} /\ e.signer \in frontier

\* get_signatures: the fingerprints an accepted edge proposes for the next layer
NextCandidates(taken, frontier, direction) ==
    {e.signer : e \in {t \in taken : direction \in {"inbound", "both"}
                                      /\ t.target \in frontier}}
    \cup {e.target : e \in {t \in taken : direction \in {"outbound", "both"}
                                           /\ t.signer \in frontier}}

\* subsets of S with exactly n elements: what a loop keeps when it stops
\* after n insertions, in whatever order the rows or the hash set came
Prefixes(S, n) == {T \in SUBSET S : Cardinality(T) = n}

GInit ==
    /\ users = [id \in {WotOwner(fp) : fp \in WotFingerprints} |-> id.local]
    /\ registered = {} /\ last = NoRequest /\ requests = 0
    /\ procs = NoProcs /\ fed = NoFederation
    /\ wot = NoWot /\ deleted_users = <<>> /\ ServicesIdle
    /\ nonces = {} /\ now = StartTime /\ ticks = 0
    /\ pending = [k \in NonceKeys |-> 0]
    /\ granted = [k \in NonceKeys |-> 0]
    /\ refused = [k \in NonceKeys |-> 0]
    /\ swept = 0

WotFrame ==
    UNCHANGED <<registered, last, requests, procs, fed, nonces, now, ticks, nonceVars,
                serviceVars>>

\* post_signature by an authenticated signer for a target whose row exists
GPostSignature ==
    /\ wot.pc = "idle"
    /\ Cardinality(wot.signatures) < MaxSignatures
    /\ \E e \in WotEdges \ wot.signatures :
         /\ GetUserByFingerprint(users, e.signer) # {}
         /\ GetUserByFingerprint(users, e.target) # {}
         /\ wot' = [wot EXCEPT !.signatures = @ \cup {e}]
    /\ UNCHANGED <<users, deleted_users>>
    /\ WotFrame

\* DELETE /user/{id}/keys by the user itself
GDelete ==
    /\ wot.pc = "idle"
    /\ \E id \in DOMAIN users :
         LET d == DeleteUser(users, deleted_users, id, users[id])
         IN /\ users' = d.users
            /\ deleted_users' = d.deleted
    /\ UNCHANGED wot
    /\ WotFrame

\* get_signatures up to the loop: the root's row, the clamps, the first frontier
GStart ==
    /\ wot.pc = "idle"
    /\ \E direction \in Directions, qd \in DepthParams, qn \in NodeParams,
          qe \in EdgeParams :
         IF GetUserByFingerprint(users, RootFingerprint) = {}
         THEN wot' = [wot EXCEPT !.pc = "done", !.run = [root |-> RootFingerprint],
                                 !.response = [status |-> "not_found"]]
         ELSE wot' = [wot EXCEPT
                !.pc = "layer",
                !.response = [status |-> "none"],
                !.run = [root |-> RootFingerprint,
                         direction |-> direction,
                         max_depth |-> Clamp(Unwrap(qd, DEFAULT_MAX_DEPTH), 1,
                                             MAX_MAX_DEPTH),
                         max_nodes |-> Clamp(Unwrap(qn, DEFAULT_MAX_NODES), 1,
                                             MAX_MAX_NODES),
                         max_edges |-> Clamp(Unwrap(qe, DEFAULT_MAX_EDGES), 1,
                                             MAX_MAX_EDGES),
                         visited_nodes |-> {RootFingerprint},
                         frontier |-> {RootFingerprint},
                         collected_edges |-> {},
                         depth_capped |-> FALSE, node_capped |-> FALSE,
                         edge_capped |-> FALSE, truncated |-> FALSE,
                         last_depth |-> 0, stopped |-> FALSE,
                         elapsed |-> 0]]
    /\ UNCHANGED <<users, deleted_users>>
    /\ WotFrame

\* the loop condition of the traversal
LoopGoesOn(r) == ~r.stopped /\ r.last_depth < r.max_depth /\ r.frontier # {}

\* one pass through the body of the while loop
GLayer ==
    /\ wot.pc = "layer"
    /\ LoopGoesOn(wot.run)
    /\ LET r == wot.run IN
       \E t \in {x \in ElapsedSamples : x >= r.elapsed} :
         IF t >= TIME_BUDGET_MS
         THEN wot' = [wot EXCEPT !.run = [r EXCEPT !.truncated = TRUE,
                                                   !.stopped = TRUE, !.elapsed = t]]
         ELSE LET relevant ==
                    {e \in GetEdgesForFrontier(wot.signatures, r.frontier, r.direction) :
                        /\ e.signer # e.target
                        /\ IsRelevant(e, r.frontier, r.direction)
                        /\ e \notin r.collected_edges}
                  room == r.max_edges - Cardinality(r.collected_edges)
              IN IF Cardinality(relevant) > room
                 THEN \E taken \in Prefixes(relevant, room) :
                        wot' = [wot EXCEPT !.run =
                                  [r EXCEPT !.last_depth = @ + 1, !.elapsed = t,
                                            !.collected_edges = @ \cup taken,
                                            !.edge_capped = TRUE, !.truncated = TRUE,
                                            !.stopped = TRUE]]
                 ELSE LET fresh == NextCandidates(relevant, r.frontier, r.direction)
                                     \ r.visited_nodes
                          space == r.max_nodes - Cardinality(r.visited_nodes)
                          capped == Cardinality(fresh) > space
                      IN \E added \in (IF capped THEN Prefixes(fresh, space)
                                                 ELSE {fresh}) :
                           wot' = [wot EXCEPT !.run =
                                     [r EXCEPT !.last_depth = @ + 1, !.elapsed = t,
                                               !.collected_edges = @ \cup relevant,
                                               !.visited_nodes = @ \cup added,
                                               !.frontier = added,
                                               !.node_capped = @ \/ capped,
                                               !.truncated = @ \/ capped]]
    /\ UNCHANGED <<users, deleted_users>>
    /\ WotFrame

\* the depth cap: the loop ended at max_depth with a frontier left
DepthCapped(r) == r.last_depth >= r.max_depth /\ r.frontier # {}

TruncatedIgnoresDepth(r, depth_capped, t) == r.truncated \/ t >= TIME_BUDGET_MS

\* meta.truncated as the code after the loop leaves it
Truncated(r, depth_capped, t) == r.truncated \/ depth_capped \/ t >= TIME_BUDGET_MS

\* after the loop: the depth cap, the last look at the clock, the tombstone
\* filter and the response
GFinish ==
    /\ wot.pc = "layer"
    /\ ~LoopGoesOn(wot.run)
    /\ LET r == wot.run
           depth_capped == DepthCapped(r)
           deleted_fps == GetDeletedFingerprints(deleted_users, r.visited_nodes)
       IN \E t \in {x \in ElapsedSamples : x >= r.elapsed} :
            wot' = [wot EXCEPT
               !.pc = "done",
               !.run = [r EXCEPT !.elapsed = t, !.depth_capped = depth_capped],
               !.response =
                  [status |-> "ok",
                   max_depth |-> r.max_depth, max_nodes |-> r.max_nodes,
                   max_edges |-> r.max_edges, direction |-> r.direction,
                   nodes |-> r.visited_nodes \ deleted_fps,
                   edges |-> {e \in r.collected_edges :
                                e.signer \notin deleted_fps
                                /\ e.target \notin deleted_fps},
                   truncated |-> Truncated(r, depth_capped, t),
                   depth_capped |-> depth_capped,
                   node_capped |-> r.node_capped,
                   edge_capped |-> r.edge_capped]]
    /\ UNCHANGED <<users, deleted_users>>
    /\ WotFrame

GNext == GPostSignature \/ GDelete \/ GStart \/ GLayer \/ GFinish

SpecWot == GInit /\ [][GNext]_vars

\* a graph read has answered with a graph
Answered == wot.pc = "done" /\ wot.response.status = "ok"

\* the fingerprints one more layer reaches from S, following direction
OneLayer(sigs, S, direction) ==
    S \cup {e.signer : e \in {x \in sigs : direction \in {"inbound", "both"}
                                          /\ x.target \in S}}
      \cup {e.target : e \in {x \in sigs : direction \in {"outbound", "both"}
                                          /\ x.signer \in S}}

\* the fingerprints within k layers of S
RECURSIVE Within(_, _, _, _)
Within(sigs, S, direction, k) ==
    IF k = 0 THEN S ELSE Within(sigs, OneLayer(sigs, S, direction), direction, k - 1)

\* C14: a graph read answers with at most max_nodes nodes and max_edges
\* edges, every node within max_depth layers of the root and every edge
\* found from a layer before the last, and the limits it echoes are the
\* query's clamped into [1,4], [1,1000] and [1,3000]
WotBounded ==
    Answered =>
      LET a == wot.response
      IN /\ a.max_depth \in 1..MAX_MAX_DEPTH
         /\ a.max_nodes \in 1..MAX_MAX_NODES
         /\ a.max_edges \in 1..MAX_MAX_EDGES
         /\ Cardinality(a.nodes) <= a.max_nodes
         /\ Cardinality(a.edges) <= a.max_edges
         /\ a.nodes \subseteq Within(wot.signatures, {wot.run.root}, a.direction,
                                     a.max_depth)
         /\ \A e \in a.edges :
              {e.signer, e.target}
                \cap Within(wot.signatures, {wot.run.root}, a.direction,
                            a.max_depth - 1) # {}

\* a read that stopped adding nodes at max_nodes and edges at max_edges
BothCapsWitness ==
    /\ Answered
    /\ wot.response.node_capped /\ wot.response.edge_capped
    /\ Cardinality(wot.response.nodes) = wot.response.max_nodes
    /\ Cardinality(wot.response.edges) = wot.response.max_edges

TombstonedHidden ==
    Answered =>
      \A t \in DOMAIN deleted_users :
         /\ deleted_users[t] \notin wot.response.nodes
         /\ \A e \in wot.response.edges :
              deleted_users[t] \notin {e.signer, e.target}

----------------------------------------------------------------------------
(* Accounts of the api revision, step by step: post_keys reads the users    *)
(* table and then inserts, delete_user authenticates and then runs its      *)
(* transaction, and other requests may come in between.                     *)

\* PublicKeys::get_primary_fingerprint: the primary key of the armored key;
\* keys that differ in their subkeys only share it
PrimaryFingerprints == <<"A", "B", "A", "B">>
GetPrimaryFingerprint(key) ==
    PrimaryFingerprints[CHOOSE i \in 1..Len(KeyNames) : KeyNames[i] = key]

\* db::users::create_user: a plain INSERT, refused by the key of the table
CreateUser(urows, id, key) ==
    IF id \in DOMAIN urows
    THEN [ok |-> FALSE, users |-> urows]
    ELSE [ok |-> TRUE, users |-> UpsertExternalUser(urows, id, key)]

\* a handler that has answered
Answer(op, status, uid, key, valid) ==
    [pc |-> "done", op |-> op, status |-> status, user_id |-> uid, key |-> key,
     valid |-> valid]

Free(p) == procs[p].pc \in {"idle", "done"}

AccountsFrame ==
    UNCHANGED <<last, nonces, now, ticks, nonceVars, fed, wot, serviceVars>>

\* post_keys up to and including get_user
PostKeysCheck(p) ==
    /\ Free(p)
    /\ Serve
    /\ \E o \in RegisterOutcomes(users) :
         procs' = [procs EXCEPT ![p] =
                     IF o.status = "created"
                     THEN [pc |-> "create", op |-> "register",
                           user_id |-> o.user_id, key |-> o.key]
                     ELSE Answer("register", o.status, o.user_id, o.key,
                                 o.status = "conflict")]
    /\ UNCHANGED <<users, registered, deleted_users>>
    /\ AccountsFrame

\* post_keys from create_user on
PostKeysCreate(p) ==
    /\ procs[p].pc = "create"
    /\ LET q == procs[p]
           c == CreateUser(users, q.user_id, q.key)
       IN /\ users' = c.users
          /\ registered' = IF c.ok THEN registered \cup {q.user_id} ELSE registered
          /\ procs' = [procs EXCEPT ![p] =
                         Answer("register", IF c.ok THEN "created" ELSE "internal",
                                q.user_id, q.key, TRUE)]
    /\ UNCHANGED <<requests, deleted_users>>
    /\ AccountsFrame

\* delete_user: the extractor has authenticated a user with a row, and the
\* path id names that user
DeleteAuth(p) ==
    /\ Free(p)
    /\ Serve
    /\ \E principal \in DOMAIN users, id \in PathIds :
         procs' = [procs EXCEPT ![p] =
                     IF ResolveLocal(id, SelfHost) # principal
                     THEN Answer("delete", "forbidden", principal, users[principal],
                                 FALSE)
                     ELSE [pc |-> "delete", op |-> "delete", user_id |-> principal,
                           key |-> users[principal]]]
    /\ UNCHANGED <<users, registered, deleted_users>>
    /\ AccountsFrame

\* delete_user: the transaction of db::users::delete_user
DeleteCommit(p) ==
    /\ procs[p].pc = "delete"
    /\ LET q == procs[p]
           d == DeleteUser(users, deleted_users, q.user_id,
                           GetPrimaryFingerprint(q.key))
       IN /\ users' = d.users
          /\ deleted_users' = d.deleted
          /\ procs' = [procs EXCEPT ![p] =
                         Answer("delete", IF d.ok THEN "deleted" ELSE "internal",
                                q.user_id, q.key, TRUE)]
    /\ UNCHANGED <<requests, registered>>
    /\ AccountsFrame

\* get_keys for a qualified id with no local row, asked by an authenticated
\* user: the users tables it can leave, the keys fetched from the resolved
\* domain cached or nothing written
GetKeysTables(urows) ==
    {LET r == DnsResolve(txt, id.local)
         target == IF r.mapped THEN r.domain ELSE id.domain
     IN IF target = SelfHost \/ ~resp.ok \/ resp.key = BadKey
        THEN urows
        ELSE UpsertExternalUser(urows, NewLocal(id.local, id.domain), resp.key) :
       id \in UserIds \ DOMAIN urows, txt \in TxtAnswers, resp \in FetchResponses}

GetKeysExternal ==
    /\ Serve
    /\ users # <<>>
    /\ \E u \in GetKeysTables(users) : users' = u
    /\ UNCHANGED <<registered, deleted_users, procs>>
    /\ AccountsFrame

\* any endpoint behind the AuthenticatedUser extractor, for what it writes
AuthenticatedRequest ==
    /\ Serve
    /\ \E o \in {[users |-> a.o.users, nonces |-> a.o.nonces] :
                   a \in Authentications(users, nonces, now)} :
         /\ users' = o.users
         /\ nonces' = o.nonces
    /\ UNCHANGED <<registered, deleted_users, procs, last, now, ticks, nonceVars,
                   fed, wot, serviceVars>>

UNext ==
    \/ \E p \in Procs : \/ PostKeysCheck(p) \/ PostKeysCreate(p)
                        \/ DeleteAuth(p) \/ DeleteCommit(p)
    \/ GetKeysExternal
    \/ AuthenticatedRequest

SpecAccounts == NInit /\ [][UNext]_vars

\* the handler of p answers in this step
Answers(p, op) ==
    /\ procs'[p] # procs[p]
    /\ procs'[p].pc = "done"
    /\ procs'[p].op = op

TombstoneBlocksRegistration ==
    [][\A p \in Procs :
         (Answers(p, "register") /\ procs'[p].status = "created") =>
            /\ procs'[p].user_id \notin DOMAIN deleted_users
            /\ \A t \in DOMAIN deleted_users :
                 deleted_users[t] # GetPrimaryFingerprint(procs'[p].key)]_vars

\* C19: a well-formed registration that answers while its id has a row
\* answers 409 and leaves the users table as it was, so of two
\* registrations racing for a new id the second to write gets 409
RegistrationConflicts ==
    [][\A p \in Procs :
         (Answers(p, "register") /\ procs'[p].valid
          /\ procs'[p].user_id \in DOMAIN users) =>
            /\ procs'[p].status = "conflict"
            /\ users' = users]_vars

\* C20: every id in the users table is fully qualified
StoredIdsQualified == \A id \in DOMAIN users : id.domain # NoDomain

\* the table holds a row written by registration and a row written by
\* discovery or external key lookup
MixedOriginsWitness ==
    /\ registered \cap DOMAIN users # {}
    /\ DOMAIN users \ registered # {}

----------------------------------------------------------------------------
(* SpecMapping: find_user_mapping applied to lists of TXT entries           *)
(* (src/api/src/federation/dns.rs).                                         *)

\* entries in a TXT answer
MaxEntries == 3

\* "user=alice": the prefix, no '@'
NoAtEntry(u) == [kind |-> "no_at", user |-> u, domain |-> NoDomain]
\* "alice@r.example": no prefix
NoPrefixEntry(u, d) == [kind |-> "no_prefix", user |-> u, domain |-> d]

MappingUsers == {"alice", "bob"}
MappingEntries ==
    {OtherEntry, NoAtEntry("alice"), NoPrefixEntry("alice", CustomDomain)}
    \cup {TxtEntry(u, d) : u \in MappingUsers \cup {"*"}, d \in {SelfHost, RemoteDomain}}

EntryLists == UNION {[1..n -> MappingEntries] : n \in 0..MaxEntries}

\* a list of entries and a user to look up, like NInit otherwise
MInit ==
    /\ users = <<>> /\ registered = {} /\ requests = 0
    /\ procs = NoProcs /\ fed = NoFederation
    /\ wot = NoWot /\ deleted_users = <<>> /\ ServicesIdle
    /\ nonces = {} /\ now = StartTime /\ ticks = 0
    /\ pending = [k \in NonceKeys |-> 0]
    /\ granted = [k \in NonceKeys |-> 0]
    /\ refused = [k \in NonceKeys |-> 0]
    /\ swept = 0
    /\ last \in [op : {"lookup"}, entries : EntryLists, user_id : MappingUsers]

\* find_user_mapping on the list for the user
FindMapping ==
    /\ last.op = "lookup"
    /\ last' = [op |-> "find_user_mapping", entries |-> last.entries,
                user_id |-> last.user_id,
                result |-> FindUserMapping(last.entries, last.user_id)]
    /\ UNCHANGED <<users, registered, requests, procs, fed, wot, deleted_users,
                   serviceVars, nonces, now, ticks, nonceVars>>

SpecMapping == MInit /\ [][FindMapping]_vars

\* the positions of the well-formed entries naming u
EntriesFor(entries, u) ==
    {i \in 1..Len(entries) :
        entries[i].kind \notin {"other", "no_at", "no_prefix"} /\ entries[i].user = u}

\* C21: find_user_mapping answers with an exact entry for the user when the
\* list has one, wherever it stands, else with a wildcard entry, else with
\* Original; entries without the prefix or without '@' count for nothing
ExactBeatsWildcard ==
    last.op = "find_user_mapping" =>
      LET exact == EntriesFor(last.entries, last.user_id)
          wild == EntriesFor(last.entries, "*")
          from == IF exact # {} THEN exact ELSE wild
      IN IF from = {} THEN last.result = Original
         ELSE /\ last.result.mapped
              /\ last.result.local_part = last.user_id
              /\ \E i \in from : last.result.domain = last.entries[i].domain

\* a wildcard first, a malformed entry for the user next, the exact entry
\* last, and the exact entry's domain is the answer
ExactAfterWildcardWitness ==
    /\ last.op = "find_user_mapping"
    /\ Len(last.entries) = 3
    /\ last.entries[1] = TxtEntry("*", SelfHost)
    /\ last.entries[2] = NoAtEntry(last.user_id)
    /\ last.entries[3] = TxtEntry(last.user_id, RemoteDomain)
    /\ last.result = Mapped(last.user_id, RemoteDomain)

----------------------------------------------------------------------------
(* SpecResolver: DnsTxtResolver with its cache and the clock                *)
(* (src/api/src/federation/dns.rs).                                         *)

\* the ttl the server gives its resolver, in milliseconds
DnsTtl == 3600 * 1000
\* the clock moves by half a ttl
ResolverJumps == {DnsTtl \div 2}
ResolverDomains == {CustomDomain, RemoteDomain}

\* the cache entry of the domain that has not expired, if there is one
FreshEntry(cache, domain, t) ==
    domain \in DOMAIN cache /\ cache[domain].expires_at > t

GetTxtEntriesStale(cache, domain, t, txt) ==
    IF FreshEntry(cache, domain, t)
    THEN [some |-> TRUE, entries |-> cache[domain].entries, source |-> "cache",
          cache |-> cache]
    ELSE IF ~txt.ok
         THEN IF domain \in DOMAIN cache
              THEN [some |-> TRUE, entries |-> cache[domain].entries,
                    source |-> "cache", cache |-> cache]
              ELSE [some |-> FALSE, entries |-> <<>>, source |-> "none",
                    cache |-> cache]
    ELSE [some |-> TRUE, entries |-> txt.entries, source |-> "dns",
          cache |-> [d \in DOMAIN cache \cup {domain} |->
                       IF d = domain
                       THEN [entries |-> txt.entries, expires_at |-> t + DnsTtl]
                       ELSE cache[d]]]

\* DnsTxtResolver::get_txt_entries: the unexpired cache entry, else the TXT
\* query, whose answer is cached for the ttl
GetTxtEntries(cache, domain, t, txt) ==
    IF FreshEntry(cache, domain, t)
    THEN [some |-> TRUE, entries |-> cache[domain].entries, source |-> "cache",
          cache |-> cache]
    ELSE IF ~txt.ok
         THEN [some |-> FALSE, entries |-> <<>>, source |-> "none", cache |-> cache]
    ELSE [some |-> TRUE, entries |-> txt.entries, source |-> "dns",
          cache |-> [d \in DOMAIN cache \cup {domain} |->
                       IF d = domain
                       THEN [entries |-> txt.entries, expires_at |-> t + DnsTtl]
                       ELSE cache[d]]]

\* DnsTxtResolver::resolve
Resolve ==
    /\ Serve
    /\ \E domain \in ResolverDomains, user_id \in SignerLocals, txt \in TxtAnswers :
         LET g == GetTxtEntries(dns, domain, now, txt)
         IN /\ dns' = g.cache
            /\ last' = [op |-> "resolve", domain |-> domain, user_id |-> user_id,
                        query_ok |-> txt.ok, source |-> g.source,
                        entries |-> g.entries, before |-> dns, at |-> now,
                        result |-> IF g.some THEN FindUserMapping(g.entries, user_id)
                                   ELSE Original]
    /\ UNCHANGED <<users, registered, procs, fed, wot, deleted_users, chats, tasks,
                   nonces, now, ticks, nonceVars>>

\* time passes
ResolverTick ==
    /\ \E d \in ResolverJumps : TickTo(d)
    /\ UNCHANGED <<users, registered, last, requests, procs, fed, wot, deleted_users,
                   serviceVars, nonces, nonceVars>>

RNext == Resolve \/ ResolverTick

SpecResolver == NInit /\ [][RNext]_vars

\* the entry the cache held for the resolved domain when resolve was called
\* was stored less than a ttl before
WithinTtl ==
    /\ last.domain \in DOMAIN last.before
    /\ last.at - (last.before[last.domain].expires_at - DnsTtl) < DnsTtl

\* C22: resolve answers from the cache only from an entry within its ttl;
\* with no such entry and a failed TXT query it returns Original, whatever
\* an expired entry says
CacheOnlyWithinTtl ==
    last.op = "resolve" =>
      /\ last.source = "cache" =>
           WithinTtl /\ last.entries = last.before[last.domain].entries
      /\ (~WithinTtl /\ ~last.query_ok) =>
           last.source = "none" /\ last.result = Original

\* an expired entry that maps the user, a failed query, and Original
ExpiredNotUsedWitness ==
    /\ last.op = "resolve"
    /\ last.domain \in DOMAIN last.before
    /\ last.before[last.domain].expires_at <= last.at
    /\ FindUserMapping(last.before[last.domain].entries, last.user_id) # Original
    /\ ~last.query_ok
    /\ last.result = Original

----------------------------------------------------------------------------
(* SpecSweeper: the nonce cleanup task spawned by the server's main        *)
(*                                                                         *)
(* loop { delete_expired_nonces; sleep(NONCE_CLEANUP_INTERVAL) }: the     *)
(* first sweep runs at startup, each later one after a full sleep.  The    *)
(* sleep is measured by the runtime's timer (tasks.slept), the expiry of   *)
(* the rows by the wall clock (now); tasks.log keeps the outcomes of the   *)
(* last MaxLog sweeps.                                                     *)

MaxLog == 3

\* Duration::from_secs(24 * 60 * 60), in milliseconds
NONCE_CLEANUP_INTERVAL == 24 * 60 * 60 * 1000

\* the timer is observed every half interval
SleepStep == NONCE_CLEANUP_INTERVAL \div 2

SweepOutcomes == {"ok", "failed"}

\* rows left by earlier requests: one expired at startup, one that expires
\* during the first sleep, one during the second
SweeperRows ==
    {NonceRow("auth", 1, "alice", StartTime - 1),
     NonceRow("auth", 2, "alice", StartTime + 1),
     NonceRow("qr", 1, "alice", StartTime + NONCE_CLEANUP_INTERVAL + 1)}

SInit ==
    /\ users = <<>>
    /\ registered = {}
    /\ last = NoRequest /\ requests = 0 /\ procs = NoProcs /\ fed = NoFederation
    /\ wot = NoWot /\ deleted_users = <<>>
    /\ dns = NoCache /\ chats = NoChats
    /\ tasks = [sweeper |-> "sweep", slept |-> 0, log |-> <<>>]
    /\ nonces \in SUBSET SweeperRows
    /\ now = StartTime
    /\ ticks = 0
    /\ pending = [k \in NonceKeys |-> 0]
    /\ granted = [k \in NonceKeys |-> 0]
    /\ refused = [k \in NonceKeys |-> 0]
    /\ swept = 0

SweeperFrame ==
    UNCHANGED <<users, registered, last, requests, procs, fed, wot, deleted_users,
                dns, chats, nonceVars>>

\* the outcomes of the last MaxLog sweeps, the newest last
Logged(log, outcome) ==
    LET l == Append(log, outcome)
    IN IF Len(l) > MaxLog THEN Tail(l) ELSE l

\* a plausible slip: Err(e) => break
AfterSweepStopsOnError(outcome) ==
    IF outcome = "failed" THEN "stopped" ELSE "sleep"

\* both arms of the match only log; the loop goes on to the sleep
AfterSweep(outcome) == "sleep"

\* one iteration's delete_expired_nonces: the DELETE runs or fails whole
SweepRun ==
    /\ tasks.sweeper = "sweep"
    /\ \E outcome \in SweepOutcomes :
         /\ nonces' = IF outcome = "ok" THEN DeleteExpiredNonces(nonces, now)
                      ELSE nonces
         /\ tasks' = [sweeper |-> AfterSweep(outcome), slept |-> 0,
                      log |-> Logged(tasks.log, outcome)]
    /\ UNCHANGED <<now, ticks>>
    /\ SweeperFrame

\* time passes during the sleep; the wall clock is followed for MaxTicks steps
SweepTick ==
    /\ tasks.sweeper = "sleep"
    /\ tasks.slept < NONCE_CLEANUP_INTERVAL
    /\ tasks' = [tasks EXCEPT !.slept = @ + SleepStep]
    /\ IF ticks < MaxTicks THEN TickTo(SleepStep) ELSE UNCHANGED <<now, ticks>>
    /\ UNCHANGED nonces
    /\ SweeperFrame

\* the timer fires: the loop starts over
SweepWake ==
    /\ tasks.sweeper = "sleep"
    /\ tasks.slept >= NONCE_CLEANUP_INTERVAL
    /\ tasks' = [tasks EXCEPT !.sweeper = "sweep"]
    /\ UNCHANGED <<nonces, now, ticks>>
    /\ SweeperFrame

SNext == SweepRun \/ SweepTick \/ SweepWake

SpecSweeper == SInit /\ [][SNext]_vars

\* the runtime schedules the task, the statement returns, the timer fires
FairSweeper ==
    SpecSweeper /\ WF_vars(SweepRun) /\ WF_vars(SweepTick) /\ WF_vars(SweepWake)

LastSweepFailed ==
    tasks.log # <<>> /\ tasks.log[Len(tasks.log)] = "failed"

\* C23: the sweeper never leaves its loop; a sweep starts only at startup or
\* after a full NONCE_CLEANUP_INTERVAL of sleep; every sweep is followed by a
\* sleep and every sleep by another sweep, also after a sweep that failed
SweeperNeverStops ==
    /\ [](tasks.sweeper \in {"sweep", "sleep"})
    /\ [][(tasks.sweeper = "sleep" /\ tasks'.sweeper = "sweep")
            => tasks.slept = NONCE_CLEANUP_INTERVAL]_vars
    /\ (tasks.sweeper = "sweep") ~> (tasks.sweeper = "sleep")
    /\ (tasks.sweeper = "sleep") ~> (tasks.sweeper = "sweep")
    /\ (tasks.sweeper = "sleep" /\ LastSweepFailed) ~> (tasks.sweeper = "sweep")

\* a sweep failed while an expired row was stored, and the next sweep is due
SweepAfterFailureWitness ==
    /\ tasks.sweeper = "sweep"
    /\ LastSweepFailed
    /\ \E r \in nonces : r.expires_at < now

----------------------------------------------------------------------------
(* SpecIngress: POST /keys/{fingerprint}/signature (post_signature)        *)
(*                                                                         *)
(* A submission is checked (IngressSubmit: every check before the nonce    *)
(* statement), then consumes its qr nonce (IngressNonce: one INSERT), then *)
(* inserts the edge (IngressInsert: one INSERT); the statements of         *)
(* concurrent submissions interleave.  The clock advances and the nonce    *)
(* sweeper runs between them.  A public key is named by its primary        *)
(* fingerprint; a signature packet by the key that made it (whose          *)
(* fingerprint is its issuer fingerprint), the key it certifies and its    *)
(* type.  granted[<<"qr", v>>] counts the submissions that consumed the    *)
(* qr nonce v.                                                             *)

IngressFingerprints == {"F1", "F2"}
PathFingerprints == IngressFingerprints \cup {"F3"}

\* the fingerprint of the signing subkey of the key with primary fingerprint fp
SigningSubkey(fp) == fp \o "s"

\* the keys a signature is verified against: the primary key, then every
\* signing subkey
SignerCandidates(fp) == {fp, SigningSubkey(fp)}

Packets ==
    [issuer_fingerprint : SignerCandidates("F1") \cup {"F2"},
     certifies : IngressFingerprints,
     is_certification : {TRUE}]
    \cup {[issuer_fingerprint |-> "F1", certifies |-> "F2", is_certification |-> FALSE]}

\* the packet of a submission answered by the checks
NoPacket == [issuer_fingerprint |-> "", certifies |-> "", is_certification |-> FALSE]

\* verify_certification_signature_for_target
VerifyCertificationSignatureForTarget(signer_key, target_key, sig) ==
    /\ sig.is_certification
    /\ sig.certifies = target_key
    /\ sig.issuer_fingerprint \in SignerCandidates(signer_key)

\* format!("sha256:{}", to_hex(Sha256::digest(&raw)))
SignatureHash(sig) == <<"sha256", sig>>

\* a plausible slip: a plain INSERT on a table without the unique index
InsertSignatureAlways(rows, id, target, signer, sig, hash) ==
    [rows |-> rows \cup {[id |-> id, target_fingerprint |-> target,
                          signer_fingerprint |-> signer, signature_b64 |-> sig,
                          signature_hash |-> hash]},
     inserted |-> TRUE]

\* INSERT ... ON CONFLICT (signature_hash) DO NOTHING; rows_affected > 0
InsertSignature(rows, id, target, signer, sig, hash) ==
    IF \E r \in rows : r.signature_hash = hash
    THEN [rows |-> rows, inserted |-> FALSE]
    ELSE [rows |-> rows \cup {[id |-> id, target_fingerprint |-> target,
                               signer_fingerprint |-> signer, signature_b64 |-> sig,
                               signature_hash |-> hash]},
          inserted |-> TRUE]

\* the time a qr nonce carries: every nonce was issued at start-up
QrNonceTime(v) == StartTime

\* the clock advances to half a second past the qr window, then further
IngressJumps == {QR_NONCE_WINDOW_SECONDS * 1000 + 500}

\* what the body of a request can lack before any row is looked at: the
\* signature type, the hash algorithm, the form of the nonce, the size
RequestDefects == {"none", "signature_type", "hash_algo", "nonce_format", "too_large"}

\* a plausible slip: the certification is not verified before the nonce is used
IngressChecksUnverified(urows, auth, fingerprint, sig, v, t) ==
    IF ~QrNonceTimeOk(QrNonceTime(v), t) THEN 400
    ELSE IF ~sig.is_certification THEN 400
    ELSE IF urows[auth] = fingerprint THEN 400
    ELSE IF GetUserByFingerprint(urows, fingerprint) = {} THEN 404
    ELSE 0

\* the checks of post_signature before the nonce statement, in their order:
\* the status answered, or 0 when the submission passes them all (a user row
\* holds the fingerprint of its own key, so the 403 check passes)
IngressChecks(urows, auth, fingerprint, sig, v, t) ==
    IF ~QrNonceTimeOk(QrNonceTime(v), t) THEN 400
    ELSE IF ~sig.is_certification THEN 400
    ELSE IF urows[auth] = fingerprint THEN 400
    ELSE IF GetUserByFingerprint(urows, fingerprint) = {} THEN 404
    ELSE IF ~VerifyCertificationSignatureForTarget(urows[auth], fingerprint, sig) THEN 400
    ELSE 0

IInit ==
    /\ users = [id \in {WotOwner(fp) : fp \in IngressFingerprints} |-> id.local]
    /\ registered = {} /\ last = NoRequest /\ requests = 0
    /\ procs = NoProcs /\ fed = NoFederation
    /\ wot = NoWot /\ deleted_users = <<>> /\ ServicesIdle
    /\ nonces = {} /\ now = StartTime /\ ticks = 0
    /\ pending = [k \in NonceKeys |-> 0]
    /\ granted = [k \in NonceKeys |-> 0]
    /\ refused = [k \in NonceKeys |-> 0]
    /\ swept = 0

IngressFrame ==
    UNCHANGED <<users, registered, last, fed, deleted_users, serviceVars,
                pending, refused, swept>>

Submission(pc, status, auth, fingerprint, sig, v, id, replay, ended) ==
    [pc |-> pc, op |-> "post_signature", status |-> status, auth |-> auth,
     fingerprint |-> fingerprint, signature |-> sig, qr_nonce |-> v, id |-> id,
     replay |-> replay, ended |-> ended]

\* the request arrives and runs up to the nonce statement
IngressSubmit(p) ==
    /\ Free(p)
    /\ Serve
    /\ \E v \in NonceValues, defect \in RequestDefects :
         LET replay == granted[<<"qr", v>>] > 0
             rejected(status) == Submission("done", status, NoUser, "", NoPacket, v,
                                            requests', replay, requests')
         IN IF defect # "none"
            THEN procs' = [procs EXCEPT ![p] = rejected(400)]
            ELSE \E auth \in DOMAIN users, fingerprint \in PathFingerprints,
                    sig \in Packets :
                   LET status == IngressChecks(users, auth, fingerprint, sig, v, now)
                   IN procs' = [procs EXCEPT ![p] =
                                  IF status = 0
                                  THEN Submission("nonce", 0, auth, fingerprint, sig, v,
                                                  requests', replay, 0)
                                  ELSE rejected(status)]
    /\ UNCHANGED <<wot, nonces, now, ticks, granted>>
    /\ IngressFrame

\* try_use_nonce(NonceType::Qr, random, user, time + 5 min)
IngressNonce(p) ==
    /\ procs[p].pc = "nonce"
    /\ LET k == <<"qr", procs[p].qr_nonce>>
           res == TryUseNonce(nonces, k[1], k[2], procs[p].auth,
                              QrNonceTime(k[2]) + NonceTtl("qr"))
       IN /\ nonces' = res.rows
          /\ IF IsNew(res)
             THEN /\ procs' = [procs EXCEPT ![p].pc = "insert"]
                  /\ granted' = [granted EXCEPT ![k] = @ + 1]
             ELSE /\ procs' = [procs EXCEPT ![p].pc = "done", ![p].status = 409,
                                            ![p].ended = requests]
                  /\ UNCHANGED granted
    /\ UNCHANGED <<wot, requests, now, ticks>>
    /\ IngressFrame

\* insert_signature and the response
IngressInsert(p) ==
    /\ procs[p].pc = "insert"
    /\ LET q == procs[p]
           res == InsertSignature(wot.signatures, q.id, q.fingerprint, users[q.auth],
                                  q.signature, SignatureHash(q.signature))
       IN /\ wot' = [wot EXCEPT !.signatures = res.rows]
          /\ procs' = [procs EXCEPT ![p].pc = "done",
                                    ![p].status = IF res.inserted THEN 200 ELSE 409,
                                    ![p].ended = requests]
    /\ UNCHANGED <<nonces, requests, now, ticks, granted>>
    /\ IngressFrame

\* the nonce sweeper's delete_expired_nonces
IngressSweep ==
    /\ nonces' = DeleteExpiredNonces(nonces, now)
    /\ nonces' # nonces
    /\ UNCHANGED <<wot, procs, requests, now, ticks, granted>>
    /\ IngressFrame

\* time passes between requests: a request is served in far less than a jump
IngressTick ==
    /\ \A p \in Procs : Free(p)
    /\ \E d \in IngressJumps : TickTo(d)
    /\ UNCHANGED <<wot, procs, requests, nonces, granted>>
    /\ IngressFrame

INext ==
    \/ \E p \in Procs : IngressSubmit(p) \/ IngressNonce(p) \/ IngressInsert(p)
    \/ IngressSweep
    \/ IngressTick

SpecIngress == IInit /\ [][INext]_vars

Submitted(p) == procs[p].pc = "done" /\ procs[p].op = "post_signature"

\* the submissions of p and q were in progress at the same time
Overlapped(p, q) == procs[p].ended >= procs[q].id /\ procs[q].ended >= procs[p].id

HashStored(rows, sig) == \E r \in rows : r.signature_hash = SignatureHash(sig)

\* C24: no two edge rows share a signature_hash and rows are never removed;
\* a submission that reaches the insert is answered 200 exactly when no row
\* with its hash was stored before, and 409 without storing otherwise; every
\* 200 has its own row.  Hence of the submissions of one signature exactly
\* one is answered 200
EdgeUniqueBySignature ==
    /\ [](\A r1, r2 \in wot.signatures :
            r1.signature_hash = r2.signature_hash => r1 = r2)
    /\ [](\A p \in Procs :
            (Submitted(p) /\ procs[p].status = 200) =>
              \E r \in wot.signatures :
                /\ r.id = procs[p].id
                /\ r.signature_hash = SignatureHash(procs[p].signature))
    /\ [][/\ wot.signatures \subseteq wot'.signatures
          /\ \A p \in Procs :
               (procs[p].pc = "insert" /\ procs'[p].pc = "done") =>
                 IF HashStored(wot.signatures, procs[p].signature)
                 THEN procs'[p].status = 409 /\ wot'.signatures = wot.signatures
                 ELSE procs'[p].status = 200]_vars

\* two overlapping submissions of one signature, each with a nonce of its
\* own that it consumed: one answered 200, the other 409
RacingSignaturesWitness ==
    \E p, q \in Procs :
      /\ Submitted(p) /\ Submitted(q) /\ Overlapped(p, q)
      /\ procs[p].signature = procs[q].signature
      /\ procs[p].qr_nonce # procs[q].qr_nonce
      /\ ~procs[p].replay /\ ~procs[q].replay
      /\ \A k \in {procs[p].qr_nonce, procs[q].qr_nonce} : granted[<<"qr", k>>] = 1
      /\ procs[p].status = 200 /\ procs[q].status = 409

\* C25: a submission whose qr nonce was consumed before it arrived is not
\* accepted: it is answered 409 once it has passed the checks made before the
\* nonce statement, and no edge of it is stored
QrNonceSingleUse ==
    \A p \in Procs :
      (Submitted(p) /\ procs[p].replay) =>
        /\ procs[p].status # 200
        /\ procs[p].signature # NoPacket => procs[p].status = 409
        /\ ~\E r \in wot.signatures : r.id = procs[p].id

\* C26: every accepted submission, and every stored edge, carries a packet
\* whose issuer fingerprint is the primary fingerprint of the principal
IssuerIsPrincipal ==
    /\ \A p \in Procs :
         (Submitted(p) /\ procs[p].status = 200) =>
           procs[p].signature.issuer_fingerprint = users[procs[p].auth]
    /\ \A r \in wot.signatures :
         r.signature_b64.issuer_fingerprint = r.signer_fingerprint

----------------------------------------------------------------------------
(* SpecQualify: the id qualification of proxied responses                  *)
(*                                                                         *)
(* A user id of a response is a JSON value: a string, given by its         *)
(* characters, or something else.  The home server's body is drawn by the  *)
(* initial state; the proxy qualifies it (QualifyResponse), and the result *)
(* is qualified once more (QualifyAgain), as a second proxy on the way     *)
(* would.                                                                  *)

MaxIdLen == 2
MaxMembers == 2

IdChars == {"b", "@"}
IdStrings == UNION {[1..n -> IdChars] : n \in 1..MaxIdLen}
ProxyDomains == {<<"d">>, <<"e">>}

JsonString(chars) == [is_str |-> TRUE, chars |-> chars]
JsonNull == [is_str |-> FALSE, chars |-> <<>>]
JsonIds == {JsonString(c) : c \in IdStrings} \cup {JsonNull}
JsonIdLists == UNION {[1..n -> JsonIds] : n \in 0..MaxMembers}

\* id.contains('@')
ContainsAt(chars) == \E i \in 1..Len(chars) : chars[i] = "@"

\* a plausible slip: the domain is appended to every id
QualifyAlways(chars, domain) == chars \o <<"@">> \o domain

\* qualify: format!("{id}@{domain}") unless the id contains '@'
Qualify(chars, domain) ==
    IF ContainsAt(chars) THEN chars ELSE chars \o <<"@">> \o domain

\* a value that is not a string is left as it is
QualifyValue(v, domain) ==
    IF v.is_str THEN JsonString(Qualify(v.chars, domain)) ELSE v

\* qualify_user_ids_in_chat_response: members[].user_id and group.created_by
QualifyUserIdsInChatResponse(body, domain) ==
    [body EXCEPT !.members = [k \in DOMAIN @ |-> QualifyValue(@[k], domain)],
                 !.created_by = QualifyValue(@, domain)]

\* qualify_sender_ids_in_messages: messages[].sender_id
QualifySenderIdsInMessages(body, domain) ==
    [body EXCEPT !.messages = [k \in DOMAIN @ |-> QualifyValue(@[k], domain)]]

QualifyBody(kind, body, domain) ==
    IF kind = "chat" THEN QualifyUserIdsInChatResponse(body, domain)
    ELSE QualifySenderIdsInMessages(body, domain)

ProxiedBodies ==
    [kind : {"chat"}, server_domain : ProxyDomains,
     body : [members : JsonIdLists, created_by : JsonIds]]
    \cup [kind : {"messages"}, server_domain : ProxyDomains,
          body : [messages : JsonIdLists]]

QInit ==
    /\ users = <<>> /\ registered = {} /\ requests = 0
    /\ procs = NoProcs /\ fed = NoFederation
    /\ wot = NoWot /\ deleted_users = <<>> /\ ServicesIdle
    /\ nonces = {} /\ now = StartTime /\ ticks = 0
    /\ pending = [k \in NonceKeys |-> 0]
    /\ granted = [k \in NonceKeys |-> 0]
    /\ refused = [k \in NonceKeys |-> 0]
    /\ swept = 0
    /\ \E r \in ProxiedBodies :
         last = [op |-> "proxied", kind |-> r.kind, server_domain |-> r.server_domain,
                 home |-> r.body, body |-> r.body]

QualifyFrame ==
    UNCHANGED <<users, registered, requests, procs, fed, wot, deleted_users,
                serviceVars, nonces, now, ticks, nonceVars>>

\* the proxy qualifies the home server's body
QualifyResponse ==
    /\ last.op = "proxied"
    /\ last' = [last EXCEPT !.op = "qualified",
                            !.body = QualifyBody(last.kind, last.home, last.server_domain)]
    /\ QualifyFrame

\* the qualified body is qualified again
QualifyAgain ==
    /\ last.op = "qualified"
    /\ last' = [op |-> "requalified", kind |-> last.kind,
                server_domain |-> last.server_domain, home |-> last.home,
                once |-> last.body,
                body |-> QualifyBody(last.kind, last.body, last.server_domain)]
    /\ QualifyFrame

QNext == QualifyResponse \/ QualifyAgain

SpecQualify == QInit /\ [][QNext]_vars

\* the id v of the home server's body as the proxy must return it for domain d
Qualified(v, w, d) ==
    IF ~v.is_str THEN w = v
    ELSE IF ContainsAt(v.chars) THEN w = v
    ELSE /\ w.is_str
         /\ Len(w.chars) = Len(v.chars) + 1 + Len(d)
         /\ \A i \in 1..Len(v.chars) : w.chars[i] = v.chars[i]
         /\ w.chars[Len(v.chars) + 1] = "@"
         /\ \A i \in 1..Len(d) : w.chars[Len(v.chars) + 1 + i] = d[i]

QualifiedList(vs, ws, d) ==
    /\ Len(ws) = Len(vs)
    /\ \A k \in 1..Len(vs) : Qualified(vs[k], ws[k], d)

\* C28: in the qualified body every bare id of members[].user_id,
\* group.created_by and messages[].sender_id is id@D and every id with an
\* '@' is as the home server sent it; qualifying again changes nothing
QualifyIdempotent ==
    /\ last.op = "qualified" =>
         IF last.kind = "chat"
         THEN /\ QualifiedList(last.home.members, last.body.members, last.server_domain)
              /\ Qualified(last.home.created_by, last.body.created_by,
                           last.server_domain)
         ELSE QualifiedList(last.home.messages, last.body.messages, last.server_domain)
    /\ last.op = "requalified" => last.body = last.once

\* a chat body with a bare member and a qualified one, qualified twice
QualifiedTwiceWitness ==
    /\ last.op = "requalified"
    /\ last.kind = "chat"
    /\ \E j, k \in 1..Len(last.home.members) :
         /\ last.home.members[j].is_str /\ ~ContainsAt(last.home.members[j].chars)
         /\ last.home.members[k].is_str /\ ContainsAt(last.home.members[k].chars)
         /\ last.body.members[j] # last.home.members[j]
    /\ last.home.created_by.is_str /\ ~ContainsAt(last.home.created_by.chars)

----------------------------------------------------------------------------
(* SpecChat: chats, their threads, messages and files, and the tasks the   *)
(* handlers spawn                                                          *)
(*                                                                         *)
(* chats.groups are the rows of chat_groups with their chat_members,       *)
(* chats.threads and chats.messages the local rows; chats.proxied are the  *)
(* requests sent on to a home server and chats.notify the requests sent to *)
(* /federation/notify.  tasks.spawned are the detached tasks that have not *)
(* finished.  last is the response of the last request.  The requests are  *)
(* made by alice, a local user.                                            *)

MaxMessages == 2

Requester == NewLocal("alice", SelfHost)
HomeChat == "c1"
RemoteChat == "c2"
GeneralThread == "t1"
ThreadIds == {GeneralThread, "t2"}

\* the member_ids of a create_chat body: bare or qualified ids
MemberIdLists ==
    {{NewLocalBare("bob", "")},
     {NewLocalBare("bob", ""), NewLocal("carol", RemoteDomain)},
     {NewLocal("carol", RemoteDomain), NewLocal("dave", RemoteDomain)},
     {NewLocal("carol", RemoteDomain), NewLocal("erin", CustomDomain)}}

\* the member_ids of a chat sync body
SyncedMemberIdLists ==
    {{Requester, NewLocal("carol", RemoteDomain)},
     {NewLocal("bob", SelfHost), NewLocal("carol", RemoteDomain)}}

EmptyChats == [groups |-> <<>>, threads |-> <<>>, messages |-> {},
               proxied |-> {}, notify |-> {}]

ChatInit ==
    /\ users = <<>> /\ registered = {} /\ last = NoRequest /\ requests = 0
    /\ procs = NoProcs /\ fed = NoFederation
    /\ wot = NoWot /\ deleted_users = <<>> /\ dns = NoCache
    /\ chats = EmptyChats
    /\ tasks = [sweeper |-> "idle", spawned |-> {}]
    /\ nonces = {} /\ now = StartTime /\ ticks = 0
    /\ pending = [k \in NonceKeys |-> 0]
    /\ granted = [k \in NonceKeys |-> 0]
    /\ refused = [k \in NonceKeys |-> 0]
    /\ swept = 0

ChatFrame ==
    UNCHANGED <<users, registered, procs, fed, wot, deleted_users, dns, nonces, now,
                ticks, nonceVars>>

Task(kind, chat_id, message_id, groups) ==
    [kind |-> kind, chat_id |-> chat_id, message_id |-> message_id,
     groups |-> groups, remaining |-> DOMAIN groups]

Spawn(ts) == [tasks EXCEPT !.spawned = @ \cup ts]

Response(op, chat_id, server_domain, status, served, committed) ==
    [op |-> op, chat_id |-> chat_id, server_domain |-> server_domain,
     status |-> status, served |-> served, committed |-> committed]

\* db::chat::is_member
IsMember(chat_id, user_id) ==
    chat_id \in DOMAIN chats.groups /\ user_id \in chats.groups[chat_id].members

\* group.server_domain, NoDomain for NULL
ServerDomain(chat_id) == chats.groups[chat_id].server_domain

\* a plausible slip: members of this server are left out of the grouping
GroupByDomainRemote(members) ==
    [d \in {m.domain : m \in {x \in members : x.domain \notin {NoDomain, SelfHost}}} |->
       {m.local : m \in {x \in members : x.domain = d}}]

\* the grouping of post_message and upload_file: every member id with an '@',
\* by what follows it
GroupByDomain(members) ==
    [d \in {m.domain : m \in {x \in members : x.domain # NoDomain}} |->
       {m.local : m \in {x \in members : x.domain = d}}]

\* create_chat's external_domains: the domains of the members that differ
\* from the hostname
ExternalDomains(members) ==
    [d \in {m.domain : m \in {x \in members : x.domain \notin {NoDomain, SelfHost}}} |->
       {m \in members : m.domain = d}]

\* create_chat with db::chat::create_chat_group
CreateChat ==
    /\ HomeChat \notin DOMAIN chats.groups
    /\ Serve
    /\ \E ids \in MemberIdLists :
         LET resolved == {ResolveLocal(id, SelfHost) : id \in ids}
             external == ExternalDomains(resolved)
         IN /\ chats' = [chats EXCEPT
                 !.groups = [c \in DOMAIN @ \cup {HomeChat} |->
                               IF c = HomeChat
                               THEN [server_domain |-> NoDomain,
                                     members |-> {Requester} \cup resolved]
                               ELSE @[c]],
                 !.threads = [t \in DOMAIN @ \cup {GeneralThread} |->
                                IF t = GeneralThread
                                THEN [chat_id |-> HomeChat, name |-> "general"]
                                ELSE @[t]]]
            /\ tasks' = Spawn((IF DOMAIN external # {}
                               THEN {Task("sync", HomeChat, 0, external)} ELSE {})
                              \cup {Task("push", HomeChat, 0, <<>>)})
            /\ last' = Response("create_chat", HomeChat, NoDomain, 200, "local", TRUE)
    /\ ChatFrame

\* the domains of the principals that send a chat sync
SyncDomains == {RemoteDomain, CustomDomain}

\* db::chat::create_remote_chat_reference: INSERT INTO chat_groups ... ON
\* CONFLICT (id) DO NOTHING, then INSERT INTO chat_members ... ON CONFLICT DO
\* NOTHING for every local member, in one transaction
CreateRemoteChatReference(groups, chat_id, server_domain, local_member_ids) ==
    [c \in DOMAIN groups \cup {chat_id} |->
       IF c # chat_id THEN groups[c]
       ELSE IF chat_id \in DOMAIN groups
       THEN [groups[c] EXCEPT !.members = @ \cup local_member_ids]
       ELSE [server_domain |-> server_domain, members |-> local_member_ids]]

\* receive_chat_sync's filter: the ids whose domain is the hostname
LocalMemberIds(ids, hostname) == {id \in ids : id.domain = hostname}

\* receive_chat_sync
ReceiveChatSync ==
    /\ Serve
    /\ \E chat_id \in {HomeChat, RemoteChat}, server_domain \in SyncDomains,
          ids \in SyncedMemberIdLists :
         LET local_member_ids == LocalMemberIds(ids, SelfHost)
         IN /\ chats' = [chats EXCEPT
                 !.groups = CreateRemoteChatReference(@, chat_id, server_domain,
                                                      local_member_ids)]
            /\ tasks' = Spawn({Task("push", chat_id, 0, <<>>)})
            /\ last' = [op |-> "receive_chat_sync", chat_id |-> chat_id,
                        server_domain |-> server_domain, status |-> 200,
                        served |-> "local", committed |-> TRUE, member_ids |-> ids]
    /\ ChatFrame

\* receive_notify
ReceiveNotify ==
    /\ Serve
    /\ tasks' = Spawn({Task("push", "", 0, <<>>)})
    /\ last' = Response("receive_notify", "", NoDomain, 200, "local", TRUE)
    /\ UNCHANGED chats
    /\ ChatFrame

\* the request is sent on to the home server, which answers or does not
Proxy(op, chat_id) ==
    /\ chats' = [chats EXCEPT !.proxied = @ \cup
                   {[domain |-> ServerDomain(chat_id), op |-> op, chat_id |-> chat_id]}]
    /\ \E status \in {200, 502} :
         last' = Response(op, chat_id, ServerDomain(chat_id), status, "proxy", FALSE)
    /\ UNCHANGED tasks

Forbidden(op, chat_id) ==
    /\ last' = Response(op, chat_id,
                        IF chat_id \in DOMAIN chats.groups THEN ServerDomain(chat_id)
                        ELSE NoDomain,
                        403, "local", FALSE)
    /\ UNCHANGED <<chats, tasks>>

\* get_messages, and create_thread (whose local branch adds a thread row and
\* spawns the push)
GetMessages ==
    /\ Serve
    /\ \E chat_id \in {HomeChat, RemoteChat} :
         IF ~IsMember(chat_id, Requester) THEN Forbidden("get_messages", chat_id)
         ELSE IF ServerDomain(chat_id) # NoDomain THEN Proxy("get_messages", chat_id)
         ELSE /\ last' = Response("get_messages", chat_id, NoDomain, 200, "local", FALSE)
              /\ UNCHANGED <<chats, tasks>>
    /\ ChatFrame

CreateThread ==
    /\ Serve
    /\ \E chat_id \in {HomeChat, RemoteChat} :
         IF ~IsMember(chat_id, Requester) THEN Forbidden("create_thread", chat_id)
         ELSE IF ServerDomain(chat_id) # NoDomain THEN Proxy("create_thread", chat_id)
         ELSE /\ chats' = [chats EXCEPT
                   !.threads = [t \in DOMAIN @ \cup {"t2"} |->
                                  IF t = "t2" THEN [chat_id |-> chat_id, name |-> "new"]
                                  ELSE @[t]]]
              /\ tasks' = Spawn({Task("push", chat_id, 0, <<>>)})
              /\ last' = Response("create_thread", chat_id, NoDomain, 200, "local", TRUE)
    /\ ChatFrame

\* post_message and upload_file: membership, proxy, the signature of the
\* content, create_message, get_chat_members, the two spawned tasks
PostLike(op) ==
    /\ Serve
    /\ \E chat_id \in {HomeChat, RemoteChat}, content_ok \in BOOLEAN,
          members_ok \in BOOLEAN :
         IF ~IsMember(chat_id, Requester) THEN Forbidden(op, chat_id)
         ELSE IF ServerDomain(chat_id) # NoDomain THEN Proxy(op, chat_id)
         ELSE IF ~content_ok
         THEN /\ last' = Response(op, chat_id, NoDomain, 400, "local", FALSE)
              /\ UNCHANGED <<chats, tasks>>
         ELSE /\ Cardinality(chats.messages) < MaxMessages
              /\ LET message_id == Cardinality(chats.messages) + 1
                 IN /\ chats' = [chats EXCEPT !.messages = @ \cup
                                   {[id |-> message_id, thread_id |-> GeneralThread,
                                     sender_id |-> Requester]}]
                    /\ IF members_ok
                       THEN /\ tasks' = Spawn(
                                 {Task("forward", chat_id, message_id,
                                       GroupByDomain(chats.groups[chat_id].members)),
                                  Task("push", chat_id, message_id, <<>>)})
                            /\ last' = Response(op, chat_id, NoDomain, 200, "local", TRUE)
                       ELSE /\ UNCHANGED tasks
                            /\ last' = Response(op, chat_id, NoDomain, 500, "local", TRUE)

PostMessage ==
    /\ PostLike("post_message")
    /\ ChatFrame

UploadFile ==
    /\ PostLike("upload_file")
    /\ ChatFrame

\* get_thread, update_thread, get_message_by_id and download_file: membership,
\* then the local row
LocalOps == {"get_thread", "update_thread", "get_message_by_id", "download_file"}

LocalOp ==
    /\ Serve
    /\ \E op \in LocalOps, chat_id \in {HomeChat, RemoteChat}, thread_id \in ThreadIds :
         IF ~IsMember(chat_id, Requester) THEN Forbidden(op, chat_id)
         ELSE /\ chats' =
                   IF op = "update_thread" /\ thread_id \in DOMAIN chats.threads
                   THEN [chats EXCEPT !.threads[thread_id].name = "renamed"]
                   ELSE chats
              /\ last' = Response(op, chat_id, ServerDomain(chat_id),
                                  IF op = "update_thread" THEN 200
                                  ELSE IF op = "get_thread"
                                  THEN (IF thread_id \in DOMAIN chats.threads
                                        THEN 200 ELSE 404)
                                  ELSE IF \E m \in chats.messages : TRUE THEN 200 ELSE 404,
                                  "local", op = "update_thread")
              /\ UNCHANGED tasks
    /\ ChatFrame

\* one iteration of a forward task's loop: forward_push to one domain; its
\* failure is logged
ForwardPush ==
    /\ \E t \in tasks.spawned, d \in Domains :
         /\ t.kind = "forward"
         /\ d \in t.remaining
         /\ chats' = [chats EXCEPT !.notify = @ \cup
                        {[domain |-> d, user_ids |-> t.groups[d],
                          chat_id |-> t.chat_id, message_id |-> t.message_id]}]
         /\ tasks' = [tasks EXCEPT !.spawned =
                        (@ \ {t}) \cup {[t EXCEPT !.remaining = @ \ {d}]}]
    /\ UNCHANGED <<last, requests>>
    /\ ChatFrame

\* a task ends: a push or sync task after its work, done or failed and
\* logged, a forward task after its last domain
TaskEnds ==
    /\ \E t \in tasks.spawned :
         /\ t.kind = "forward" => t.remaining = {}
         /\ tasks' = [tasks EXCEPT !.spawned = @ \ {t}]
    /\ UNCHANGED <<chats, last, requests>>
    /\ ChatFrame

ChatNext ==
    \/ CreateChat \/ ReceiveChatSync \/ ReceiveNotify
    \/ GetMessages \/ CreateThread \/ PostMessage \/ UploadFile \/ LocalOp
    \/ ForwardPush \/ TaskEnds

SpecChat == ChatInit /\ [][ChatNext]_vars

ChatOps == LocalOps \cup {"get_messages", "create_thread", "post_message", "upload_file"}

\* C27: a request of a member on a chat whose server_domain is set is sent on
\* to the home server, not served by the local rows
ProxiedWhenRemote ==
    (last.op \in ChatOps /\ last.server_domain # NoDomain /\ last.status # 403)
      => last.served = "proxy"

\* C29: every request to /federation/notify goes to another domain than the
\* hostname and carries exactly the members of the chat at that domain
PushOnlyRemote ==
    \A n \in chats.notify :
      /\ n.domain # SelfHost
      /\ n.user_ids = {m.local : m \in {x \in chats.groups[n.chat_id].members :
                                          x.domain = n.domain}}

SpawningOps ==
    {"create_chat", "receive_chat_sync", "receive_notify", "create_thread",
     "post_message", "upload_file"}

\* C30: a step of a spawned task leaves the response as it is, and a request
\* that has committed its change answers 200
ParentIndependent ==
    /\ [][requests' = requests => last' = last]_vars
    /\ [](last.op \in SpawningOps /\ last.committed => last.status = 200)

\* the step is a chat sync that was answered
ChatSynced == requests' # requests /\ last'.op = "receive_chat_sync"

\* C31: after a chat sync the chat it names is a reference whose
\* server_domain is the domain of the principal, and the members the sync
\* added are the member_ids at this server's hostname, no others
ChatSyncCreatesReference ==
    [][ChatSynced =>
         LET c == last'.chat_id
             before == IF c \in DOMAIN chats.groups THEN chats.groups[c].members ELSE {}
         IN /\ c \in DOMAIN chats'.groups
            /\ chats'.groups[c].server_domain = last'.server_domain
            /\ chats'.groups[c].members =
                 before \cup {id \in last'.member_ids : id.domain = SelfHost}]_vars

\* C37: a chat sync that names a chat which exists under another home leaves
\* that chat's row and members as they are
ChatSyncKeepsExisting ==
    [][ChatSynced =>
         \A c \in DOMAIN chats.groups :
           (c = last'.chat_id /\ chats.groups[c].server_domain # last'.server_domain)
             => chats'.groups[c] = chats.groups[c]]_vars

----------------------------------------------------------------------------
(* The nonce types (SpecNonce) *)

\* C32: a try_use_nonce call for (type, value) is granted exactly when no
\* row of that type and value is stored, whatever rows of the other type
\* there are, and it leaves the outcome of a call for the same value under
\* the other type as it was
NonceTypesIndependent ==
    [][\A k \in NonceKeys :
         pending'[k] < pending[k] =>
           /\ (granted'[k] > granted[k]) <=>
                ~\E r \in nonces : r.nonce_type = k[1] /\ r.nonce_value = k[2]
           /\ \A t \in NonceTypes \ {k[1]} :
                IsNew(TryUseNonce(nonces', t, k[2], "caller", now))
                  = IsNew(TryUseNonce(nonces, t, k[2], "caller", now))]_vars

\* one value consumed under both types, each call granted
BothTypesWitness ==
    \E v \in NonceValues :
      /\ granted[<<"auth", v>>] = 1 /\ granted[<<"qr", v>>] = 1
      /\ NonceConflict(nonces, "auth", v) /\ NonceConflict(nonces, "qr", v)

----------------------------------------------------------------------------
(* SpecUserId: the validation and resolution of user ids (types.rs)        *)
(*                                                                         *)
(* An id is the sequence of its characters.  The initial state draws the   *)
(* id and the hostname; ApplyUserId applies one of the functions to the    *)
(* id, ReapplyUserId applies resolve_local or resolve to its own result.   *)

MaxUserIdLen == 3

LowerLetters == {"a", "d", "i", "m", "n", "o", "r", "t"}
UpperLetters == {"A", "D", "I", "M", "N", "O", "R", "T"}

\* char::to_ascii_lowercase on the letters of the model
ToAsciiLowercaseChar(c) ==
    CASE c = "A" -> "a" [] c = "D" -> "d" [] c = "I" -> "i" [] c = "M" -> "m"
      [] c = "N" -> "n" [] c = "O" -> "o" [] c = "R" -> "r" [] c = "T" -> "t"
      [] OTHER -> c

ToAsciiLowercase(chars) == [k \in DOMAIN chars |-> ToAsciiLowercaseChar(chars[k])]

\* c.is_ascii_alphanumeric() || matches!(c, '_' | '.' | '+' | '-')
LocalPartChar(c) ==
    c \in LowerLetters \cup UpperLetters \cup {"7", "_", ".", "+", "-"}

\* the ids every rule is tried on: all short ids over a small alphabet, and
\* the reserved words in several letter cases, bare and qualified
ShortIds == UNION {[1..n -> {"a", ".", "@", "!"}] : n \in 0..MaxUserIdLen}
ReservedIds ==
    {<<"r", "o", "o", "t">>, <<"R", "o", "O", "t">>, <<"r", "o", "o", "t", "a">>,
     <<"a", "d", "m", "i", "n">>, <<"A", "D", "M", "I", "N">>,
     <<"r", "o", "o", "t", "@", "d">>, <<"A", "d", "m", "i", "n", "@", "d">>,
     <<"a", "+", "7", "_", "-", "@", "d">>, <<"a", ".", "a", "@", "d", "@", "d">>}
UserIdStrings == ShortIds \cup ReservedIds
Hostnames == {<<"h">>}

Ok(chars) == [ok |-> TRUE, id |-> chars]
Err == [ok |-> FALSE, id |-> <<>>]

\* the position of the first '@', 0 when there is none
FirstAt(chars) ==
    IF ContainsAt(chars)
    THEN CHOOSE k \in 1..Len(chars) :
           chars[k] = "@" /\ \A j \in 1..(k - 1) : chars[j] # "@"
    ELSE 0

\* s.split('@').next(): what stands before the first '@'
LocalPart(chars) ==
    IF ContainsAt(chars) THEN SubSeq(chars, 1, FirstAt(chars) - 1) ELSE chars

\* s.split_once('@'): what follows the first '@'
DomainPart(chars) == SubSeq(chars, FirstAt(chars) + 1, Len(chars))

\* validate_local_part
ValidateLocalPart(chars) ==
    /\ chars # <<>>
    /\ \A k \in 1..Len(chars) : LocalPartChar(chars[k])
    /\ chars[1] # "." /\ chars[Len(chars)] # "."
    /\ ~\E k \in 1..(Len(chars) - 1) : chars[k] = "." /\ chars[k + 1] = "."
    /\ ToAsciiLowercase(chars) \notin {<<"r", "o", "o", "t">>, <<"a", "d", "m", "i", "n">>}

\* UserId::validate_full
ValidateFull(chars) ==
    IF chars = <<>> THEN Err
    ELSE IF ~ValidateLocalPart(LocalPart(chars)) THEN Err
    ELSE Ok(chars)

\* UserId::new_local
UserIdNewLocal(local, domain) ==
    IF ~ValidateLocalPart(local) THEN Err ELSE Ok(local \o <<"@">> \o domain)

\* a plausible slip: the hostname replaces the domain of a qualified id
UserIdResolveLocalRehomed(chars, hostname) ==
    UserIdNewLocal(LocalPart(chars), hostname)

\* UserId::resolve_local
UserIdResolveLocal(chars, hostname) ==
    IF ContainsAt(chars)
    THEN IF ~ValidateLocalPart(LocalPart(chars)) THEN Err ELSE Ok(chars)
    ELSE UserIdNewLocal(chars, hostname)

\* UserId::resolve
UserIdResolve(chars, hostname) ==
    IF ContainsAt(chars) THEN ValidateFull(chars) ELSE UserIdNewLocal(chars, hostname)

UserIdFunctions == {"resolve_local", "resolve", "validate_full"}

ApplyFunction(f, chars, hostname) ==
    CASE f = "resolve_local" -> UserIdResolveLocal(chars, hostname)
      [] f = "resolve" -> UserIdResolve(chars, hostname)
      [] OTHER -> ValidateFull(chars)

IdInit ==
    /\ users = <<>> /\ registered = {} /\ requests = 0
    /\ procs = NoProcs /\ fed = NoFederation
    /\ wot = NoWot /\ deleted_users = <<>> /\ ServicesIdle
    /\ nonces = {} /\ now = StartTime /\ ticks = 0
    /\ pending = [k \in NonceKeys |-> 0]
    /\ granted = [k \in NonceKeys |-> 0]
    /\ refused = [k \in NonceKeys |-> 0]
    /\ swept = 0
    /\ last \in [op : {"input"}, id : UserIdStrings, hostname : Hostnames]

\* one of the functions is applied to the id
ApplyUserId ==
    /\ last.op = "input"
    /\ \E f \in UserIdFunctions :
         last' = [op |-> f, id |-> last.id, hostname |-> last.hostname,
                  result |-> ApplyFunction(f, last.id, last.hostname)]
    /\ QualifyFrame

\* resolve_local or resolve is applied to its own result
ReapplyUserId ==
    /\ last.op \in {"resolve_local", "resolve"}
    /\ last.result.ok
    /\ last' = [op |-> "again", f |-> last.op, id |-> last.id,
                hostname |-> last.hostname, result |-> last.result,
                again |-> ApplyFunction(last.op, last.result.id, last.hostname)]
    /\ QualifyFrame

IdNext == ApplyUserId \/ ReapplyUserId

SpecUserId == IdInit /\ [][IdNext]_vars

\* C33: resolve_local and resolve give id@hostname for a bare id and the id
\* itself for a qualified one, whenever they accept it; applied to their own
\* result they return it unchanged
ResolveIdempotent ==
    /\ (last.op \in {"resolve_local", "resolve"} /\ last.result.ok) =>
         last.result.id = IF ContainsAt(last.id) THEN last.id
                          ELSE last.id \o <<"@">> \o last.hostname
    /\ last.op = "again" => last.again = last.result

\* a bare id and a qualified id of another domain, resolved twice
ResolvedTwiceWitness ==
    /\ last.op = "again"
    /\ last.again.ok
    /\ last.id \in {<<"a">>, <<"a", "@", "a">>}

\* the local part is well formed as the specification has it
LocalWellFormed(local) ==
    /\ Len(local) > 0
    /\ \A k \in 1..Len(local) : LocalPartChar(local[k])
    /\ local[1] # "." /\ local[Len(local)] # "."
    /\ ~\E k \in 1..(Len(local) - 1) : local[k] = "." /\ local[k + 1] = "."
    /\ ToAsciiLowercase(local) \notin {<<"r", "o", "o", "t">>, <<"a", "d", "m", "i", "n">>}

\* C34: an id is accepted only with a well-formed local part and, when it
\* has an '@', at least one character after it
AcceptedIdsWellFormed ==
    (last.op \in UserIdFunctions /\ last.result.ok) =>
      /\ LocalWellFormed(LocalPart(last.id))
      /\ ContainsAt(last.id) => Len(DomainPart(last.id)) >= 1

----------------------------------------------------------------------------
(* SpecSsrf: the guard on outbound URLs (routes/atproto.rs)                *)
(*                                                                         *)
(* An IPv4 address is its four octets.  An IPv6 address is its first       *)
(* segment and the value of the remaining 112 bits.  The host of a URL is  *)
(* an address literal or a name; what the resolver answers for a name is   *)
(* not in the hands of the server.                                         *)

MaxAnswers == 2

V4(a, b, c, d) == [family |-> "v4", octets |-> <<a, b, c, d>>]
V6(seg0, rest) == [family |-> "v6", seg0 |-> seg0, rest |-> rest]

V4Addresses ==
    {V4(127, 0, 0, 1), V4(10, 0, 0, 1), V4(172, 16, 0, 1), V4(172, 32, 0, 1),
     V4(192, 168, 1, 1), V4(169, 254, 1, 1), V4(224, 0, 0, 1),
     V4(255, 255, 255, 255), V4(0, 0, 0, 0), V4(8, 8, 8, 8), V4(1, 1, 1, 1)}
V6Addresses ==
    {V6(0, 0), V6(0, 1), V6(64512, 1), V6(64768, 1), V6(65152, 1),
     V6(65216, 1), V6(65282, 1), V6(8193, 1)}
Addresses == V4Addresses \cup V6Addresses

\* Ipv4Addr::is_loopback, is_private, is_link_local, is_broadcast,
\* is_unspecified of the standard library
V4IsLoopback(o) == o[1] = 127
V4IsPrivate(o) ==
    \/ o[1] = 10
    \/ o[1] = 172 /\ o[2] \in 16..31
    \/ o[1] = 192 /\ o[2] = 168
V4IsLinkLocal(o) == o[1] = 169 /\ o[2] = 254
V4IsBroadcast(o) == o = <<255, 255, 255, 255>>
V4IsUnspecified(o) == o = <<0, 0, 0, 0>>

\* seg0 & mask for a mask that keeps the high bits down to the bit of weight low
MaskHigh(seg0, low) == seg0 - (seg0 % low)

\* is_private_ip
IsPrivateIp(ip) ==
    IF ip.family = "v4"
    THEN \/ V4IsLoopback(ip.octets)
         \/ V4IsPrivate(ip.octets)
         \/ V4IsLinkLocal(ip.octets)
         \/ V4IsBroadcast(ip.octets)
         \/ V4IsUnspecified(ip.octets)
    ELSE \/ ip.seg0 = 0 /\ ip.rest = 1
         \/ ip.seg0 = 0 /\ ip.rest = 0
         \/ MaskHigh(ip.seg0, 512) = 64512
         \/ MaskHigh(ip.seg0, 64) = 65152
         \/ MaskHigh(ip.seg0, 256) = 65280

\* the hosts of the URLs: an IPv4 literal, a bracketed IPv6 literal, a name
Literal(ip) == [kind |-> "literal", ip |-> ip]
HostName == [kind |-> "name"]
UrlHosts == {Literal(ip) : ip \in Addresses} \cup {HostName}

\* what lookup_host may return for a name: an error, or some addresses
DnsFailed == [ok |-> FALSE, addrs |-> {}]
DnsAnswers ==
    {DnsFailed} \cup
    {[ok |-> TRUE, addrs |-> a] :
       a \in {x \in SUBSET Addresses : Cardinality(x) \in 1..MaxAnswers}}

\* validate_url_not_private: an IPv4 literal is judged as it stands; the
\* host string of an IPv6 literal is bracketed, does not parse as an
\* address, and reaches lookup_host, which returns the address itself
ValidateUrlNotPrivate(host, answer) ==
    IF host.kind = "literal" /\ host.ip.family = "v4"
    THEN IF IsPrivateIp(host.ip) THEN "bad_request" ELSE "ok"
    ELSE IF ~answer.ok THEN "bad_request"
    ELSE IF \E ip \in answer.addrs : IsPrivateIp(ip) THEN "bad_request"
    ELSE "ok"

SsrfInit ==
    /\ users = <<>> /\ registered = {} /\ requests = 0
    /\ procs = NoProcs /\ fed = NoFederation
    /\ wot = NoWot /\ deleted_users = <<>> /\ ServicesIdle
    /\ nonces = {} /\ now = StartTime /\ ticks = 0
    /\ pending = [k \in NonceKeys |-> 0]
    /\ granted = [k \in NonceKeys |-> 0]
    /\ refused = [k \in NonceKeys |-> 0]
    /\ swept = 0
    /\ last \in [op : {"url"}, host : UrlHosts]

\* the guard is run on the URL; a name is resolved on the way
ValidateUrl ==
    /\ last.op = "url"
    /\ \E answer \in DnsAnswers :
         /\ last.host.kind = "literal" =>
              answer = [ok |-> TRUE, addrs |-> {last.host.ip}]
         /\ last' = [op |-> "validated", host |-> last.host,
                     addrs |-> IF last.host.kind = "literal"
                               THEN {last.host.ip} ELSE answer.addrs,
                     result |-> ValidateUrlNotPrivate(last.host, answer)]
    /\ QualifyFrame

SsrfNext == ValidateUrl

SpecSsrf == SsrfInit /\ [][SsrfNext]_vars

\* the address classes the guard is to keep out
ForbiddenAddress(ip) ==
    IF ip.family = "v4"
    THEN \/ ip.octets[1] = 127
         \/ ip.octets[1] = 10
         \/ ip.octets[1] = 172 /\ ip.octets[2] \in 16..31
         \/ ip.octets[1] = 192 /\ ip.octets[2] = 168
         \/ ip.octets[1] = 169 /\ ip.octets[2] = 254
         \/ ip.octets[1] \in 224..239
    ELSE \/ ip.seg0 = 0 /\ ip.rest = 1
         \/ ip.seg0 \in 64512..65023
         \/ ip.seg0 \in 65152..65215
         \/ ip.seg0 \in 65280..65535

\* C35: a URL the guard lets through has no loopback, private, link-local,
\* multicast or unique-local address as its host, literal or resolved
GuardRejectsInternalHosts ==
    (last.op = "validated" /\ last.result = "ok") =>
      \A ip \in last.addrs : ~ForbiddenAddress(ip)

----------------------------------------------------------------------------
(* Rejected authentications and the users table (SpecAuth)                 *)

\* C36: a request whose authentication is rejected leaves the users table
\* as it was
RejectedAuthKeepsUsers ==
    [][(last'.op \in AuthOps /\ last'.auth # "ok") => users' = users]_vars

----------------------------------------------------------------------------
(* Sweeps and the replay of a consumed nonce (SpecIngress)                 *)

\* C38: a nonce is granted at most once, and a sweep removes the row of a
\* qr nonce only when the window check already refuses the nonce's time
SweepOnlyOutsideWindow ==
    [][/\ \A k \in NonceKeys : granted'[k] <= 1
       /\ \A r \in nonces \ nonces' :
            r.nonce_type = "qr" =>
              ~QrNonceTimeOk(r.expires_at - NonceTtl("qr"), now)]_vars

----------------------------------------------------------------------------
(* The endpoints of the returned edges (SpecWot)                           *)

\* C39: in every response of the graph read both endpoints of every edge
\* are among the nodes
EdgeEndpointsListed ==
    (wot.pc = "done" /\ wot.response.status = "ok") =>
      \A e \in wot.response.edges :
        e.signer \in wot.response.nodes /\ e.target \in wot.response.nodes

----------------------------------------------------------------------------
(* Rejections ahead of the nonce (SpecIngress)                             *)

\* the step ends submission p with the answer of a check that stands before
\* the nonce is used
RejectedEarly(p) ==
    /\ procs[p].pc # "done"
    /\ procs'[p].pc = "done"
    /\ procs'[p].status \in {400, 404}

=============================================================================
